---- MODULE Spec2Model ----
(***************************************************************************)
(* A model of pysisense's migration orchestration (src/pysisense/          *)
(* migration.py): the batch loops of migrate_all_dashboards and            *)
(* migrate_all_datamodels with their salvage mode, the per-call logic of   *)
(* migrate_dashboards and migrate_datamodels, the share migration of       *)
(* migrate_dashboard_shares, migrate_all_groups, and the name-based        *)
(* source-to-target id mappings.                                           *)
(*                                                                         *)
(* The remote Sisense servers are the environment: every HTTP answer is a  *)
(* nondeterministic choice (\E) over the answers the code distinguishes.   *)
(* A transport failure is the client returning None                        *)
(* (sisenseclient.py:344-348).  Where the code copies per-item results out *)
(* of a successful bulk-import answer, the target is taken to answer with  *)
(* one result per dashboard it was sent (the Sisense bulk-import           *)
(* contract); request-level failures are modelled in full.                 *)
(***************************************************************************)
EXTENDS Integers, Sequences, FiniteSets, TLC

\* ---- bounds of the model ----
MaxDash == 3          \* dashboard ids are 1..MaxDash
MaxBatch == 2         \* batch_size ranges over 1..MaxBatch
MaxModels == 2        \* data models the source environment holds at most
MaxPages == 2         \* listing pages the source serves before an empty page

MaxShareDash == 2     \* dashboard pairs handed to migrate_dashboard_shares
MaxRequestDash == 1   \* dashboard pairs of a share migration whose requests are traced
MaxPrincipals == 2    \* users and groups of the source that dashboards are shared with
MaxGroups == 2        \* groups the source lists
MaxTargets == 2       \* target entities of one mapping build
MaxRefs == 2          \* references handed to a wellcheck in one list
MaxRules == 2         \* data security rules of one data model

None == 0             \* Python's None where an id is expected

Ids == 1..MaxDash
ModelIds == 1..MaxModels
Titles == {"A", "B"}

\* Titles of the source entities: ids 1 and 2 carry the same title, so that
\* title collisions occur.
TitleOf(d) == IF d <= 2 THEN "A" ELSE "B"

ActionValues == {"none", "skip", "overwrite", "duplicate"}

VARIABLES
    op,                \* the public operation this behaviour runs
    pc,                \* position in the running code
    outcome,           \* how the public operation ended
    \* parameters of the public operation
    action, migrate_share, change_ownership, batch_size,
    \* migrate_all_* locals
    all_ids,           \* ids discovered by the source listing
    all_list,          \* the same ids in the order they are batched
    pages_fetched, total_count, batches_total,
    i, batch_ids, migration_summary, batch_errors, salvage_idx, sleeps,
    result,            \* the dict migrate_all_* returns
    \* migrate_dashboards / migrate_datamodels locals (the nested call)
    call,              \* arguments of the running nested call
    summary,           \* its summary / result lists
    todo,              \* ids the call exports, in order
    exp_idx, bulk_data,
    sent,              \* whether the call has sent any HTTP request
    exc,               \* the exception the call raised, if any
    share_calls,       \* calls made to migrate_dashboard_shares
    malformed,         \* exported data models whose "datasets" cannot be iterated
    \* history of the run
    attempted,         \* batch numbers started, in order
    calls,             \* nested calls made, in order
    sums,              \* totals of the per-call results returned
    mark,              \* list lengths when the current batch started
    batch_raised, bulk_none,
    \* migrate_dashboard_shares
    source_dashboard_ids, target_dashboard_ids,
    user_mapping,      \* source user/group id -> target id, None without a match
    dash_idx,          \* position of the loop over the dashboard pairs
    share_migration_summary, dashboard_results,
    ownership_posts,   \* change_owner requests sent
    share_result,      \* the dict migrate_dashboard_shares returns
    unmatched,         \* source shares met so far whose user/group has no match
    \* migrate_all_groups
    source_groups, eligible_count, bulk_answer, group_result,
    \* the name-based mappings
    map_kind,          \* which mapping is built
    map_src, map_tgt,  \* the source and target listings it is built from
    target_by_key,     \* title_to_targets / target_user_map / target_models_by_title
    source_to_target,  \* the mapping built last from map_src and map_tgt
    map_warnings,      \* titles a collision warning was logged for
    remembered,        \* the first build from map_src and map_tgt, and what followed
    \* what the requests of a run did
    none_answers,      \* the kinds of request answered None so far, each with whether
                       \* another request for the same item followed
    last_posted,       \* the principals of the share list sent last to the target
    share_name,        \* per principal, whether the userName / name the target's share
                       \* lists give it is the email / name it is mapped by
    last_shares,       \* existing_shares and final_new_shares of the list sent last
    last_import,       \* the import requests sent for the data model imported last
    owner_due,         \* dashboard pairs met whose source owner has a target id and
                       \* does not own the target dashboard
    \* Dashboard.add_dashboard_script / add_widget_script
    executing_user,    \* whether executing_user was passed
    script_valid,      \* whether the script argument parses as JSON
    dash_owner,        \* who owns the dashboard on the server
    dash_shares,       \* the state of the dashboard's shares on the server
    last_response,     \* the answer to the last request of the script operation
    script_result,     \* the string the operation returned
    \* the listing loop and the progress callback of the dashboard migrations
    dashboard_response, \* the answer to the last request for a source listing page
    emit,              \* the callback passed: none, one that returns, one that raises
    events,            \* what the callback was handed so far
    \* SisenseClient._make_request
    method,            \* the HTTP method of the call
    response,          \* what the requests library answered or raised
    returned,          \* what the call returned
    logged,            \* the level of the line logged about the answer
    \* WellCheck
    dashboards,        \* the dashboards argument: None, a string or a list
    datamodels,        \* the datamodels argument: None, a string or a list
    max_pivot_fields,  \* the max_pivot_fields argument of run_full_wellcheck
    dashboard_refs,    \* the normalized dashboard references
    datamodel_refs,    \* the normalized data model references
    answers,           \* per reference met by a check, how resolving and fetching went
    results,           \* the rows a check appended so far
    total_processed,   \* total_dashboards / total_datamodels_processed of a check
    warnings,          \* positions of the references a check logged a warning for
    check_result,      \* what the check returned
    sub_calls,         \* the sub-checks run_full_wellcheck invoked, with their arguments
    sub_rows,          \* per sub-check, the rows it returned
    report             \* what run_full_wellcheck returned

paramVars == <<action, migrate_share, change_ownership, batch_size>>
orchVars == <<all_ids, all_list, pages_fetched, total_count, batches_total, i, batch_ids,
              migration_summary, batch_errors, salvage_idx, sleeps, result>>
callVars == <<call, summary, todo, exp_idx, bulk_data, sent, exc, share_calls,
              malformed>>
histVars == <<attempted, calls, sums, mark, batch_raised, bulk_none>>

shareVars == <<source_dashboard_ids, target_dashboard_ids, user_mapping, dash_idx,
               share_migration_summary, dashboard_results, ownership_posts,
               share_result, unmatched, share_name, last_shares>>
groupVars == <<source_groups, eligible_count, bulk_answer, group_result>>
mapVars == <<map_kind, map_src, map_tgt, target_by_key, source_to_target, map_warnings,
             remembered>>
requestVars == <<none_answers, last_posted, last_import, owner_due>>
scriptVars == <<executing_user, script_valid, dash_owner, dash_shares, last_response,
                script_result>>
traceVars == <<dashboard_response, emit, events>>
clientVars == <<method, response, returned, logged>>
wellVars == <<dashboards, datamodels, max_pivot_fields, dashboard_refs, datamodel_refs,
              answers, results, total_processed, warnings, check_result, sub_calls,
              sub_rows, report>>
toolVars == <<clientVars, wellVars>>
extraVars == <<requestVars, scriptVars, traceVars, toolVars>>
sideButEvents == <<shareVars, groupVars, mapVars, requestVars, scriptVars,
                   dashboard_response, emit, toolVars>>
sideVars == <<shareVars, groupVars, mapVars, extraVars>>
migrationVars == <<paramVars, orchVars, callVars, histVars>>

vars == <<op, pc, outcome, paramVars, orchVars, callVars, histVars, sideVars>>

\* ---- helpers ----
Min(a, b) == IF a <= b THEN a ELSE b

RECURSIVE SortedSeq(_)
SortedSeq(S) ==
    IF S = {} THEN <<>>
    ELSE LET m == CHOOSE x \in S : \A y \in S : x <= y
         IN  <<m>> \o SortedSeq(S \ {m})

\* all_dashboard_ids_list[i : i + batch_size]
Slice(s, from, n) == SubSeq(s, from + 1, Min(from + n, Len(s)))

Range(s) == {s[k] : k \in 1..Len(s)}

EmptySummary == [succeeded |-> <<>>, skipped |-> <<>>, failed |-> <<>>]

Entry(sid, tid, why) == [sid |-> sid, tid |-> tid, why |-> why]

NoResult == [ok |-> FALSE, status |-> "running", total_count |-> 0,
             succeeded_count |-> 0, skipped_count |-> 0, failed_count |-> 0,
             batches_total |-> 0, batch_errors_count |-> 0, raw_error |-> FALSE]

NoCall == [ids |-> <<>>, names |-> {}, action |-> "none", mode |-> "idle"]

NoSums == [succeeded |-> 0, skipped |-> 0, failed |-> 0, salvage_exc |-> 0]

NoMark == [succeeded |-> 0, skipped |-> 0, failed |-> 0]

\* ------------------------------------------------------------------------
\* Name-based source -> target mapping.  A listing or dict is a sequence of
\* <<id, key>> pairs in insertion order, as Python dicts iterate; the key is
\* the email of a user, the name of a group, the title of a dashboard or of
\* a data model.
\* ------------------------------------------------------------------------

\* a dict from key to the target ids that carry it, before anything is added
EmptyIndex == [t \in Titles |-> <<>>]

\* the dict a build holds from an earlier call instead of a new one
CarriedDict(prev) == prev

\* title_to_targets = {}, target_user_map = {...}, target_models_by_title = {}:
\* every build starts from a new dict
StartDict(prev) == EmptyIndex

\* for tid, ttitle in target_id_to_title.items():
\*     title_to_targets.setdefault(ttitle, []).append(tid)
TitleToTargets(start, target_id_to_title) ==
    [t \in Titles |->
        LET hit == SelectSeq(target_id_to_title, LAMBDA p : p[2] = t)
        IN  start[t] \o [k \in 1..Len(hit) |-> hit[k][1]]]

\* targets[0]
PickFirst(targets) == targets[1]

\* d[key] = value in a loop keeps the value assigned last
PickLast(targets) == targets[Len(targets)]

\* source_to_target of migrate_dashboards: sources without a target are left out
SourceToTarget(source_id_to_title, title_to_targets) ==
    LET hit == SelectSeq(source_id_to_title, LAMBDA p : title_to_targets[p[2]] # <<>>)
    IN  [k \in 1..Len(hit) |-> <<hit[k][1], PickFirst(title_to_targets[hit[k][2]])>>]

\* titles for which "Multiple target dashboards share the same title" is logged
CollisionWarnings(source_id_to_title, title_to_targets) ==
    {p[2] : p \in {q \in Range(source_id_to_title) : Len(title_to_targets[q[2]]) > 1}}

\* user_mapping / group_mapping of migrate_dashboard_shares:
\* {source_id: target_user_map.get(email)} over every source user
UserMapping(source_user_map, target_user_map) ==
    [k \in 1..Len(source_user_map) |->
        <<source_user_map[k][1],
          IF target_user_map[source_user_map[k][2]] = <<>> THEN None
          ELSE PickLast(target_user_map[source_user_map[k][2]])>>]

\* target_id of migrate_datamodels for a migrated model whose import answer
\* carried no id: target_models_by_title[title].get("oid")
ModelTargetIds(migrated, target_models_by_title) ==
    [k \in 1..Len(migrated) |->
        <<migrated[k][1],
          IF target_models_by_title[migrated[k][2]] = <<>> THEN None
          ELSE PickLast(target_models_by_title[migrated[k][2]])>>]

\* ------------------------------------------------------------------------
\* migrate_dashboards
\* ------------------------------------------------------------------------

ArgsInvalidNoOwnership(c) ==
    \/ c.ids # <<>> /\ c.names # {}
    \/ c.ids = <<>> /\ c.names = {}

\* the three argument checks that raise ValueError
ArgsInvalid(c) ==
    \/ c.ids # <<>> /\ c.names # {}
    \/ c.ids = <<>> /\ c.names = {}
    \/ ~migrate_share /\ change_ownership

\* events: the type of the first event handed to the callback, the number
\* of "completed" events, and whether the last event was a "completed" one
NoEvents == [first |-> "none", completed |-> 0, closed |-> FALSE]

EmitPropagatesRaise(cb) == cb = "raises"

\* _emit: except Exception keeps what the callback raises inside
EmitPropagates(cb) == FALSE

\* _emit(emit, {"type": type, ...}): nothing without a callback
Emit(cb, ev, type) ==
    IF cb = "none" THEN ev
    ELSE [first |-> IF ev.first = "none" THEN type ELSE ev.first,
          completed |-> IF type = "completed" THEN ev.completed + 1 ELSE ev.completed,
          closed |-> type = "completed"]

\* the emit argument of the running call of migrate_dashboards: the batch
\* and salvage calls of migrate_all_dashboards pass none
CallEmit == IF call.mode = "direct" THEN emit ELSE "none"

MD_Validate ==
    /\ pc = "md_validate"
    /\ IF EmitPropagates(CallEmit)
       THEN /\ exc' = "CallbackError"
            /\ pc' = "md_raised"
            /\ events' = Emit(CallEmit, events, "started")
            /\ UNCHANGED <<summary, todo, exp_idx, bulk_data>>
       ELSE IF ArgsInvalid(call)
       THEN /\ exc' = "ValueError"
            /\ pc' = "md_raised"
            /\ events' = Emit(CallEmit, Emit(CallEmit, events, "started"), "error")
            /\ UNCHANGED <<summary, todo, exp_idx, bulk_data>>
       ELSE /\ summary' = EmptySummary
            /\ bulk_data' = <<>>
            /\ exp_idx' = 1
            /\ todo' = call.ids
            /\ pc' = IF call.ids # <<>> THEN "md_export" ELSE "md_resolve"
            /\ exc' = "none"
            /\ events' = Emit(CallEmit, events, "started")
    /\ UNCHANGED <<op, outcome, paramVars, sideButEvents, orchVars, call, sent, share_calls,
                   malformed, histVars>>

\* dashboard_names: page through the source listing and keep the dashboards
\* whose title is wanted
MD_ResolveByNames ==
    /\ pc = "md_resolve"
    /\ \E listed \in SUBSET Ids :
          todo' = SortedSeq({d \in listed : TitleOf(d) \in call.names})
    /\ sent' = TRUE
    /\ pc' = "md_export"
    /\ UNCHANGED <<op, outcome, paramVars, sideVars, orchVars, call, summary, exp_idx,
                   bulk_data, exc, share_calls, malformed, histVars>>

\* the answer to the first request for an item: None, 403, another status
\* that is not 200, or 200
FirstAnswers == {"none", "403", "other", "200"}

\* a request for an item is followed by a second one, without adminAccess,
\* after every answer but 200 (export), after None or 403 (change_owner),
\* after 403 (the target's shares and the POST of the shares)
RetriedOnAnyFailure(kind, first) == first # "200"

Retried(kind, first) ==
    CASE kind = "export" -> first # "200"
      [] kind = "change_owner" -> first \in {"none", "403"}
      [] OTHER -> first = "403"

\* what a None answer to a request of this kind adds to none_answers
NoneRetried(kind, first) ==
    IF first = "none" THEN {[kind |-> kind, retried |-> Retried(kind, first)]} ELSE {}

\* the second answers there are to choose from
SecondAnswers(kind, first) == IF Retried(kind, first) THEN BOOLEAN ELSE {FALSE}

\* _export_dashboard: adminAccess=true first, then the fallback request; a
\* 200 answer whose body is not a JSON object ends the export without it
ExportOk(first, body_ok, second_ok) ==
    IF Retried("export", first) THEN second_ok ELSE first = "200" /\ body_ok

MD_ExportOne ==
    /\ pc = "md_export"
    /\ exp_idx <= Len(todo)
    /\ \E first \in FirstAnswers :
       \E body_ok \in (IF first = "200" THEN BOOLEAN ELSE {FALSE}),
          second_ok \in SecondAnswers("export", first) :
          /\ IF ExportOk(first, body_ok, second_ok)
             THEN /\ bulk_data' = Append(bulk_data, todo[exp_idx])
                  /\ UNCHANGED summary
             ELSE /\ summary' = [summary EXCEPT !.failed =
                                    Append(@, Entry(todo[exp_idx], None, "export_failed"))]
                  /\ UNCHANGED bulk_data
          /\ none_answers' = none_answers \cup NoneRetried("export", first)
    /\ exp_idx' = exp_idx + 1
    /\ sent' = TRUE
    /\ UNCHANGED <<op, pc, outcome, paramVars, shareVars, groupVars, mapVars, toolVars, scriptVars, traceVars,
                   last_posted, last_import, owner_due, orchVars, call, todo, exc,
                   share_calls, malformed, histVars>>

MD_ExportDone ==
    /\ pc = "md_export"
    /\ exp_idx > Len(todo)
    /\ pc' = IF bulk_data = <<>> THEN "md_ret" ELSE "md_bulk"
    /\ events' = Emit(CallEmit, events, IF bulk_data = <<>> THEN "completed" ELSE "progress")
    /\ UNCHANGED <<op, outcome, paramVars, sideButEvents, orchVars, callVars, histVars>>

\* the items of one list of the bulk answer, in the order they were sent
ItemsOf(data, cls, kind) ==
    LET idx == SelectSeq([k \in 1..Len(data) |-> k], LAMBDA k : cls[k] = kind)
    IN  [j \in 1..Len(idx) |-> data[idx[j]]]

\* source_ids_by_title: title -> exported source ids, in export order
SourceIdsByTitle(data) ==
    [t \in Titles |-> SelectSeq(data, LAMBDA d : TitleOf(d) = t)]

\* "Parse succeeded" / "Parse skipped": the source id is popped from
\* source_ids_by_title by title
RECURSIVE ParseItems(_, _, _, _)
ParseItems(items, byTitle, why, acc) ==
    IF items = <<>> THEN [entries |-> acc, byTitle |-> byTitle]
    ELSE LET d == Head(items)
             ids == byTitle[TitleOf(d)]
             sid == IF ids # <<>> THEN Head(ids) ELSE None
             rest == IF ids # <<>> THEN [byTitle EXCEPT ![TitleOf(d)] = Tail(ids)]
                     ELSE byTitle
         IN  ParseItems(Tail(items), rest, why, Append(acc, Entry(sid, d, why)))

\* "Parse failed": the id is the oid the target reports
FailedEntries(items, why) == [k \in 1..Len(items) |-> Entry(items[k], None, why)]

ParsedSummary(data, cls, sofar) ==
    LET s == ParseItems(ItemsOf(data, cls, "succeeded"), SourceIdsByTitle(data),
                        "succeeded", <<>>)
        k == ParseItems(ItemsOf(data, cls, "skipped"), s.byTitle, "skipped", <<>>)
    IN  [succeeded |-> sofar.succeeded \o s.entries,
         skipped |-> sofar.skipped \o k.entries,
         failed |-> sofar.failed \o FailedEntries(ItemsOf(data, cls, "failed"), "target_failed")]

BulkFailureDropsItems(data, sofar) == sofar

\* request-level failure: every exported dashboard is recorded as failed
BulkFailure(data, sofar) ==
    [sofar EXCEPT !.failed = @ \o FailedEntries(data, "bulk_failed")]

\* request-level answers of the bulk import that carry no per-item results
BulkFailures == {"none", "error", "nonjson", "message"}

ItemKinds == {"succeeded", "skipped", "failed"}

SharesWantedWhateverAction(c) == migrate_share

\* whether the share/ownership step runs after a parsed bulk answer
SharesWanted(c) == migrate_share /\ c.action \notin {"duplicate", "overwrite"}

MD_BulkImport ==
    /\ pc = "md_bulk"
    /\ sent' = TRUE
    /\ \/ \E o \in BulkFailures :
             /\ summary' = BulkFailure(bulk_data, summary)
             /\ bulk_none' = (bulk_none \/ (o = "none" /\ call.mode = "batch"))
             /\ pc' = "md_ret"
       \/ \E cls \in [1..Len(bulk_data) -> ItemKinds] :
             /\ summary' = ParsedSummary(bulk_data, cls, summary)
             /\ UNCHANGED bulk_none
             /\ LET src == [k \in 1..Len(bulk_data) |->
                              <<bulk_data[k], TitleOf(bulk_data[k])>>]
                    ok == ItemsOf(bulk_data, cls, "succeeded")
                    tgt == [k \in 1..Len(ok) |-> <<ok[k], TitleOf(ok[k])>>]
                IN  pc' = IF /\ SharesWanted(call)
                             /\ SourceToTarget(src, TitleToTargets(EmptyIndex, tgt)) # <<>>
                          THEN "md_shares" ELSE "md_ret"
    /\ events' = Emit(CallEmit, events, IF pc' = "md_ret" THEN "completed" ELSE "progress")
    /\ UNCHANGED <<op, outcome, paramVars, sideButEvents, orchVars, call, todo, exp_idx,
                   bulk_data, exc, share_calls, malformed, attempted, calls, sums, mark,
                   batch_raised>>

\* the call of migrate_dashboard_shares; it is not guarded by a try, so what
\* it raises (a non-JSON share answer, a share without "type") leaves the call
MD_MigrateShares ==
    /\ pc = "md_shares"
    /\ share_calls' = Append(share_calls,
                             [action |-> call.action, change_ownership |-> change_ownership])
    /\ \E r \in {"returns", "raises"} :
          IF r = "returns"
          THEN /\ pc' = "md_ret"
               /\ events' = Emit(CallEmit, events, "completed")
               /\ UNCHANGED exc
          ELSE /\ pc' = "md_raised"
               /\ exc' = "Exception"
               /\ UNCHANGED events
    /\ UNCHANGED <<op, outcome, paramVars, sideButEvents, orchVars, call, summary, todo,
                   exp_idx, bulk_data, sent, malformed, histVars>>

\* the caller of a direct migrate_dashboards call
MD_DirectReturn ==
    /\ pc = "md_ret"
    /\ call.mode = "direct"
    /\ op = "migrate_dashboards"
    /\ outcome' = "returned"
    /\ pc' = "done"
    /\ UNCHANGED <<op, paramVars, sideVars, orchVars, callVars, histVars>>

MD_DirectRaise ==
    /\ pc = "md_raised"
    /\ call.mode = "direct"
    /\ op = "migrate_dashboards"
    /\ outcome' = exc
    /\ pc' = "done"
    /\ UNCHANGED <<op, paramVars, sideVars, orchVars, callVars, histVars>>


\* ------------------------------------------------------------------------
\* migrate_all_dashboards
\* ------------------------------------------------------------------------

\* answers of one source listing page that end the pagination
PageEnds == {"fail", "empty", "nonjson"}

HardFailureOnAnyPage(o, pages) == o = "fail"

\* if pages_fetched == 0: a failed request for the very first page
HardFailure(o, pages) == o = "fail" /\ pages = 0

\* the "started" event comes before the first request for a page
Started(ev) == IF dashboard_response = "unset" THEN Emit(emit, ev, "started") ELSE ev

MAD_FetchPage ==
    /\ op = "migrate_all_dashboards"
    /\ pc = "mad_fetch"
    /\ IF dashboard_response = "unset" /\ EmitPropagates(emit)
       THEN /\ outcome' = "CallbackError"
            /\ pc' = "done"
            /\ events' = Started(events)
            /\ UNCHANGED <<result, all_ids, pages_fetched, dashboard_response>>
       ELSE \/ /\ \E o \in PageEnds :
                    /\ dashboard_response' = o
                    /\ IF HardFailure(o, pages_fetched)
                       THEN /\ result' = [NoResult EXCEPT !.status = "failed",
                                                           !.raw_error = TRUE]
                            /\ outcome' = "returned"
                            /\ pc' = "done"
                            /\ events' = Emit(emit, Started(events), "error")
                       ELSE IF o = "nonjson"
                       THEN \* dashboard_response.json() raises outside any try
                            /\ outcome' = "Exception"
                            /\ pc' = "done"
                            /\ events' = Emit(emit, Started(events), "progress")
                            /\ UNCHANGED result
                       ELSE \* stop paginating, go on with what was retrieved
                            /\ pc' = "mad_plan"
                            /\ events' = Emit(emit, Started(events), "progress")
                            /\ UNCHANGED <<result, outcome>>
               /\ UNCHANGED <<all_ids, pages_fetched>>
            \/ /\ pages_fetched < MaxPages
               /\ \E S \in SUBSET Ids :
                     all_ids' = all_ids \cup S
               /\ pages_fetched' = pages_fetched + 1
               /\ dashboard_response' = "page"
               /\ events' = Emit(emit, Started(events), "progress")
               /\ UNCHANGED <<pc, result, outcome>>
    /\ UNCHANGED <<op, paramVars, shareVars, groupVars, mapVars, toolVars, requestVars, scriptVars, emit,
                   all_list, total_count, batches_total, i, batch_ids,
                   migration_summary, batch_errors, salvage_idx, sleeps,
                   callVars, histVars>>

BatchesTotalRoundedDown(n, size) == IF size > 0 THEN n \div size ELSE 0

\* (total_count + batch_size - 1) // batch_size if batch_size > 0 else 0
BatchesTotal(n, size) == IF size > 0 THEN (n + size - 1) \div size ELSE 0

MAD_Plan ==
    /\ op = "migrate_all_dashboards"
    /\ pc = "mad_plan"
    /\ all_list' = SortedSeq(all_ids)
    /\ total_count' = Cardinality(all_ids)
    /\ batches_total' = BatchesTotal(Cardinality(all_ids), batch_size)
    /\ migration_summary' = EmptySummary
    /\ batch_errors' = <<>>
    /\ i' = 0
    /\ IF all_ids = {}
       THEN /\ result' = [NoResult EXCEPT !.ok = TRUE, !.status = "noop"]
            /\ outcome' = "returned"
            /\ pc' = "done"
            /\ events' = Emit(emit, events, "completed")
       ELSE /\ pc' = "mad_batch"
            /\ events' = Emit(emit, events, "progress")
            /\ UNCHANGED <<result, outcome>>
    /\ dashboard_response' = "left"   \* the loop is left, the answer is not read again
    /\ UNCHANGED <<op, paramVars, shareVars, groupVars, mapVars, toolVars, requestVars, scriptVars, emit,
                   all_ids, pages_fetched, batch_ids, salvage_idx, sleeps, callVars,
                   histVars>>

Lengths(s) == [succeeded |-> Len(s.succeeded), skipped |-> Len(s.skipped),
               failed |-> Len(s.failed)]

\* for i in range(0, total_count, batch_size): whether there is an iteration
\* at i; a negative step gives an empty range
RangeRuns(at, total, size) == size > 0 /\ at < total

\* range() arg 3 must not be zero, raised outside any try
MAD_RangeError ==
    /\ op = "migrate_all_dashboards"
    /\ pc = "mad_batch"
    /\ batch_size = 0
    /\ outcome' = "ValueError"
    /\ pc' = "done"
    /\ UNCHANGED <<op, paramVars, sideVars, orchVars, callVars, histVars>>

MAD_BatchStart ==
    /\ op = "migrate_all_dashboards"
    /\ pc = "mad_batch"
    /\ RangeRuns(i, total_count, batch_size)
    /\ batch_ids' = Slice(all_list, i, batch_size)
    /\ call' = [ids |-> Slice(all_list, i, batch_size), names |-> {},
                action |-> action, mode |-> "batch"]
    /\ sent' = FALSE
    /\ salvage_idx' = 0
    /\ attempted' = Append(attempted, (i \div batch_size) + 1)
    /\ calls' = Append(calls, call')
    /\ mark' = Lengths(migration_summary)
    /\ batch_raised' = FALSE
    /\ bulk_none' = FALSE
    /\ pc' = "md_validate"
    /\ UNCHANGED <<op, outcome, paramVars, sideVars, all_ids, all_list, pages_fetched, total_count,
                   batches_total, i, migration_summary, batch_errors, sleeps, result,
                   summary, todo, exp_idx, bulk_data, exc, share_calls, malformed,
                   sums>>

AggregateDropsSkipped(total, part) ==
    [succeeded |-> total.succeeded \o part.succeeded,
     skipped |-> total.skipped,
     failed |-> total.failed \o part.failed]

\* migration_summary[...].extend(batch_summary.get(..., []))
Aggregate(total, part) ==
    [succeeded |-> total.succeeded \o part.succeeded,
     skipped |-> total.skipped \o part.skipped,
     failed |-> total.failed \o part.failed]

\* the per-call results, counted as the call returns them
AddSums(t, part) ==
    [t EXCEPT !.succeeded = @ + Len(part.succeeded),
              !.skipped = @ + Len(part.skipped),
              !.failed = @ + Len(part.failed)]

MAD_BatchReturn ==
    /\ op = "migrate_all_dashboards"
    /\ pc = "md_ret"
    /\ call.mode = "batch"
    /\ migration_summary' = Aggregate(migration_summary, summary)
    /\ sums' = AddSums(sums, summary)
    /\ pc' = "mad_next"
    /\ UNCHANGED <<op, outcome, paramVars, sideVars, all_ids, all_list, pages_fetched, total_count,
                   batches_total, i, batch_ids, batch_errors, salvage_idx, sleeps,
                   result, callVars, attempted, calls, mark, batch_raised, bulk_none>>

OnBatchErrorReraise == "reraise"

\* except Exception as e: record the batch error and enter salvage mode
OnBatchError == "salvage"

MAD_BatchExcept ==
    /\ op = "migrate_all_dashboards"
    /\ pc = "md_raised"
    /\ call.mode = "batch"
    /\ batch_errors' = Append(batch_errors, (i \div batch_size) + 1)
    /\ batch_raised' = TRUE
    /\ salvage_idx' = 1
    /\ IF OnBatchError = "salvage"
       THEN pc' = "mad_salvage" /\ UNCHANGED outcome
       ELSE pc' = "done" /\ outcome' = exc
    /\ UNCHANGED <<op, paramVars, sideVars, all_ids, all_list, pages_fetched, total_count, batches_total,
                   i, batch_ids, migration_summary, sleeps, result, callVars,
                   attempted, calls, sums, mark, bulk_none>>

\* the action salvage mode passes to migrate_dashboards
SalvageAction == "skip"

MAD_SalvageStart ==
    /\ op = "migrate_all_dashboards"
    /\ pc = "mad_salvage"
    /\ salvage_idx <= Len(batch_ids)
    /\ call' = [ids |-> <<batch_ids[salvage_idx]>>, names |-> {},
                action |-> SalvageAction, mode |-> "salvage"]
    /\ sent' = FALSE
    /\ calls' = Append(calls, call')
    /\ pc' = "md_validate"
    /\ UNCHANGED <<op, outcome, paramVars, sideVars, orchVars, summary, todo, exp_idx,
                   bulk_data, exc, share_calls, malformed, attempted, sums, mark,
                   batch_raised, bulk_none>>

MAD_SalvageReturn ==
    /\ op = "migrate_all_dashboards"
    /\ pc = "md_ret"
    /\ call.mode = "salvage"
    /\ migration_summary' = Aggregate(migration_summary, summary)
    /\ sums' = AddSums(sums, summary)
    /\ salvage_idx' = salvage_idx + 1
    /\ pc' = "mad_salvage"
    /\ UNCHANGED <<op, outcome, paramVars, sideVars, all_ids, all_list, pages_fetched, total_count,
                   batches_total, i, batch_ids, batch_errors, sleeps, result,
                   callVars, attempted, calls, mark, batch_raised, bulk_none>>

SalvageFailureIgnored(total, did) == total

\* except Exception as e2: the dashboard is recorded as failed
SalvageFailure(total, did) ==
    [total EXCEPT !.failed = Append(@, Entry(did, None, "salvage_exc"))]

MAD_SalvageExcept ==
    /\ op = "migrate_all_dashboards"
    /\ pc = "md_raised"
    /\ call.mode = "salvage"
    /\ migration_summary' = SalvageFailure(migration_summary, batch_ids[salvage_idx])
    /\ sums' = [sums EXCEPT !.salvage_exc = @ + 1]
    /\ salvage_idx' = salvage_idx + 1
    /\ pc' = "mad_salvage"
    /\ UNCHANGED <<op, outcome, paramVars, sideVars, all_ids, all_list, pages_fetched, total_count,
                   batches_total, i, batch_ids, batch_errors, sleeps, result,
                   callVars, attempted, calls, mark, batch_raised, bulk_none>>

MAD_SalvageDone ==
    /\ op = "migrate_all_dashboards"
    /\ pc = "mad_salvage"
    /\ salvage_idx > Len(batch_ids)
    /\ pc' = "mad_next"
    /\ UNCHANGED <<op, outcome, paramVars, sideVars, orchVars, callVars, histVars>>

MoreBatchesAlways(at, size, total) == TRUE

\* if i + batch_size < total_count: whether a batch follows the one at i
MoreBatches(at, size, total) == at + size < total

\* the end of one loop iteration: sleep unless this was the last batch
MAD_NextBatch ==
    /\ op = "migrate_all_dashboards"
    /\ pc = "mad_next"
    /\ sleeps' = IF MoreBatches(i, batch_size, total_count) THEN sleeps + 1 ELSE sleeps
    /\ i' = i + batch_size
    /\ pc' = "mad_batch"
    /\ UNCHANGED <<op, outcome, paramVars, sideVars, all_ids, all_list, pages_fetched, total_count,
                   batches_total, batch_ids, migration_summary, batch_errors,
                   salvage_idx, result, callVars, histVars>>

\* the counts and flags of the returned summary
FinalResult(ms, total, batches, errors) ==
    [ok |-> (total > 0) /\ (Len(ms.failed) = 0),
     status |-> IF (total > 0) /\ (Len(ms.failed) = 0) THEN "success" ELSE "failed",
     total_count |-> total,
     succeeded_count |-> Len(ms.succeeded),
     skipped_count |-> Len(ms.skipped),
     failed_count |-> Len(ms.failed),
     batches_total |-> batches,
     batch_errors_count |-> Len(errors),
     raw_error |-> FALSE]

MAD_Finish ==
    /\ op = "migrate_all_dashboards"
    /\ pc = "mad_batch"
    /\ batch_size # 0
    /\ ~RangeRuns(i, total_count, batch_size)
    /\ result' = FinalResult(migration_summary, total_count, batches_total, batch_errors)
    /\ outcome' = "returned"
    /\ pc' = "done"
    /\ events' = Emit(emit, events, "completed")
    /\ UNCHANGED <<op, paramVars, sideButEvents, all_ids, all_list, pages_fetched, total_count,
                   batches_total, i, batch_ids, migration_summary, batch_errors,
                   salvage_idx, sleeps, callVars, histVars>>

\* ------------------------------------------------------------------------
\* migrate_datamodels
\* ------------------------------------------------------------------------

\* the two argument checks that raise ValueError
DMArgsInvalid(c) ==
    \/ c.ids # <<>> /\ c.names # {}
    \/ c.ids = <<>> /\ c.names = {}

\* no import request has been sent by this call
NoImport == [sid |-> None, queries |-> <<>>, answers |-> <<>>]

MDM_Validate ==
    /\ pc = "mdm_validate"
    /\ IF DMArgsInvalid(call)
       THEN /\ exc' = "ValueError"
            /\ pc' = "mdm_raised"
            /\ UNCHANGED <<summary, todo, exp_idx, bulk_data, malformed, last_import>>
       ELSE /\ summary' = EmptySummary
            /\ bulk_data' = <<>>
            /\ malformed' = {}
            /\ exp_idx' = 1
            /\ todo' = call.ids
            /\ pc' = IF call.ids # <<>> THEN "mdm_export" ELSE "mdm_resolve"
            /\ exc' = "none"
            /\ last_import' = NoImport
    /\ UNCHANGED <<op, outcome, paramVars, shareVars, groupVars, mapVars, toolVars, scriptVars, traceVars,
                   none_answers, last_posted, owner_due,
                   orchVars, call, sent, share_calls, histVars>>

\* found_title_to_oid: the first listed data model of each wanted title
FoundByTitle(listed, names) ==
    LET ts == SelectSeq(SortedSeq(listed),
                        LAMBDA d : /\ TitleOf(d) \in names
                                   /\ \A e \in listed : TitleOf(e) = TitleOf(d) => d <= e)
    IN  ts

\* one failed entry per requested name that was not found in the source
NotFoundEntries(listed, names) ==
    LET missing == SortedSeq({k \in 1..2 :
                       /\ (IF k = 1 THEN "A" ELSE "B") \in names
                       /\ ~\E d \in listed : TitleOf(d) = (IF k = 1 THEN "A" ELSE "B")})
    IN  [k \in 1..Len(missing) |-> Entry(None, None, "not_found")]

MDM_ResolveByNames ==
    /\ pc = "mdm_resolve"
    /\ sent' = TRUE
    /\ \/ \* the first listing page fails: the call returns its failed result
          /\ pc' = "mdm_ret"
          /\ UNCHANGED <<summary, todo>>
       \/ \E listed \in SUBSET ModelIds :
             /\ todo' = FoundByTitle(listed, call.names)
             /\ summary' = [summary EXCEPT !.failed = @ \o NotFoundEntries(listed, call.names)]
             /\ pc' = IF FoundByTitle(listed, call.names) = <<>> THEN "mdm_ret"
                      ELSE "mdm_export"
    /\ UNCHANGED <<op, outcome, paramVars, sideVars, orchVars, call, exp_idx, bulk_data, exc,
                   share_calls, malformed, histVars>>

\* answers to one schema export: a schema, a schema whose "datasets" cannot be
\* iterated, a non-200 answer or None, a 200 answer that is no JSON object
DMExportOutcomes == {"ok", "ok_malformed", "fail", "nondict"}

MDM_ExportOne ==
    /\ pc = "mdm_export"
    /\ exp_idx <= Len(todo)
    /\ \E o \in DMExportOutcomes :
          IF o \in {"ok", "ok_malformed"}
          THEN /\ bulk_data' = Append(bulk_data, todo[exp_idx])
               /\ malformed' = IF o = "ok_malformed" THEN malformed \cup {todo[exp_idx]}
                               ELSE malformed
               /\ UNCHANGED summary
          ELSE /\ summary' = [summary EXCEPT !.failed =
                                 Append(@, Entry(todo[exp_idx], None, "export_failed"))]
               /\ UNCHANGED <<bulk_data, malformed>>
    /\ exp_idx' = exp_idx + 1
    /\ sent' = TRUE
    /\ UNCHANGED <<op, pc, outcome, paramVars, sideVars, orchVars, call, todo, exc,
                   share_calls, histVars>>

MDM_ExportDone ==
    /\ pc = "mdm_export"
    /\ exp_idx > Len(todo)
    /\ pc' = IF bulk_data = <<>> THEN "mdm_ret" ELSE "mdm_import"
    /\ exp_idx' = 1
    /\ UNCHANGED <<op, outcome, paramVars, sideVars, orchVars, call, summary, todo, bulk_data,
                   sent, exc, share_calls, malformed, histVars>>

\* answers to the import POST, and to the fallback POST after a 404
DMImportOutcomes == {"201", "404", "error", "none", "raise"}

DMFallbackOutcomes == {"201", "exists", "error", "none", "raise"}

\* query_string of the import POST
FirstQuery(act) ==
    IF act = "overwrite" THEN "datamodelId"
    ELSE IF act = "duplicate" THEN "newTitle" ELSE "plain"

\* whether the import is sent again, without a query string
FallbackSent(act, o) == o = "404" /\ act = "overwrite"

\* the import requests one data model causes, and their answers
ImportRequests(d, act, o, fb) ==
    IF FallbackSent(act, o)
    THEN [sid |-> d, queries |-> <<FirstQuery(act), "plain">>, answers |-> <<o, fb>>]
    ELSE [sid |-> d, queries |-> <<FirstQuery(act)>>, answers |-> <<o>>]

ImportEntryWithoutFallback(sofar, d, act, o, fb) ==
    IF o = "201"
    THEN [sofar EXCEPT !.succeeded = Append(@, Entry(d, d, "succeeded"))]
    ELSE [sofar EXCEPT !.failed = Append(@, Entry(d, None, "import_failed"))]

\* the entry one imported data model leaves in the result
ImportEntry(sofar, d, act, o, fb) ==
    IF o = "201" \/ (o = "404" /\ act = "overwrite" /\ fb = "201")
    THEN [sofar EXCEPT !.succeeded = Append(@, Entry(d, d, "succeeded"))]
    ELSE IF o = "404" /\ act = "overwrite" /\ fb = "exists"
    THEN [sofar EXCEPT !.failed = Append(@, Entry(d, None, "already_exists"))]
    ELSE IF o = "raise"
    THEN [sofar EXCEPT !.failed = Append(@, Entry(d, None, "exception"))]
    ELSE [sofar EXCEPT !.failed = Append(@, Entry(d, None, "import_failed"))]

MDM_ImportOne ==
    /\ pc = "mdm_import"
    /\ exp_idx <= Len(bulk_data)
    /\ IF bulk_data[exp_idx] \in malformed
       THEN \* for dataset in data_model.get("datasets", []) raises before the try
            /\ exc' = "Exception"
            /\ pc' = "mdm_raised"
            /\ UNCHANGED <<summary, exp_idx, sent, last_import>>
       ELSE /\ \E o \in DMImportOutcomes, fb \in DMFallbackOutcomes :
                  /\ summary' = ImportEntry(summary, bulk_data[exp_idx], call.action, o, fb)
                  /\ last_import' = ImportRequests(bulk_data[exp_idx], call.action, o, fb)
            /\ exp_idx' = exp_idx + 1
            /\ sent' = TRUE
            /\ UNCHANGED <<exc, pc>>
    /\ UNCHANGED <<op, outcome, paramVars, shareVars, groupVars, mapVars, toolVars, scriptVars, traceVars,
                   none_answers, last_posted, owner_due,
                   orchVars, call, todo, bulk_data, share_calls, malformed, histVars>>

MDM_ImportDone ==
    /\ pc = "mdm_import"
    /\ exp_idx > Len(bulk_data)
    /\ pc' = IF migrate_share THEN "mdm_shares" ELSE "mdm_ret"
    /\ UNCHANGED <<op, outcome, paramVars, sideVars, orchVars, callVars, histVars>>

\* Step 4, shares=True: the user/group listings and the per-model share
\* requests; the step is not guarded by a try
MDM_Shares ==
    /\ pc = "mdm_shares"
    /\ sent' = TRUE
    /\ \E r \in {"returns", "raises"} :
          IF r = "returns"
          THEN pc' = "mdm_ret" /\ UNCHANGED exc
          ELSE pc' = "mdm_raised" /\ exc' = "Exception"
    /\ UNCHANGED <<op, outcome, paramVars, sideVars, orchVars, call, summary, todo, exp_idx,
                   bulk_data, share_calls, malformed, histVars>>

MDM_DirectReturn ==
    /\ pc = "mdm_ret"
    /\ call.mode = "direct"
    /\ outcome' = "returned"
    /\ pc' = "done"
    /\ UNCHANGED <<op, paramVars, sideVars, orchVars, callVars, histVars>>

MDM_DirectRaise ==
    /\ pc = "mdm_raised"
    /\ call.mode = "direct"
    /\ outcome' = exc
    /\ pc' = "done"
    /\ UNCHANGED <<op, paramVars, sideVars, orchVars, callVars, histVars>>

\* ------------------------------------------------------------------------
\* migrate_all_datamodels
\* ------------------------------------------------------------------------

MADM_FetchPage ==
    /\ pc = "madm_fetch"
    /\ \/ /\ \E o \in {"fail", "empty"} :
                IF o = "fail" /\ pages_fetched = 0
                THEN /\ result' = [NoResult EXCEPT !.status = "failed", !.raw_error = TRUE]
                     /\ outcome' = "returned"
                     /\ pc' = "done"
                ELSE /\ pc' = "madm_plan"
                     /\ UNCHANGED <<result, outcome>>
          /\ UNCHANGED <<all_ids, all_list, pages_fetched>>
       \/ /\ pages_fetched < MaxPages
          /\ \E S \in SUBSET ModelIds :
                /\ all_ids' = all_ids \cup S
                /\ all_list' = all_list \o SortedSeq(S \ all_ids)
          /\ pages_fetched' = pages_fetched + 1
          /\ \E short \in BOOLEAN :
                pc' = IF short THEN "madm_plan" ELSE "madm_fetch"
          /\ UNCHANGED <<result, outcome>>
    /\ UNCHANGED <<op, paramVars, sideVars, total_count, batches_total, i, batch_ids,
                   migration_summary, batch_errors, salvage_idx, sleeps,
                   callVars, histVars>>

MADM_Plan ==
    /\ pc = "madm_plan"
    /\ total_count' = Len(all_list)
    /\ batches_total' = BatchesTotal(Len(all_list), batch_size)
    /\ migration_summary' = EmptySummary
    /\ batch_errors' = <<>>
    /\ i' = 0
    /\ IF all_list = <<>>
       THEN /\ result' = [NoResult EXCEPT !.ok = TRUE, !.status = "noop"]
            /\ outcome' = "returned"
            /\ pc' = "done"
       ELSE /\ pc' = "madm_batch"
            /\ UNCHANGED <<result, outcome>>
    /\ UNCHANGED <<op, paramVars, sideVars, all_ids, all_list, pages_fetched, batch_ids,
                   salvage_idx, sleeps, callVars, histVars>>

MADM_BatchStart ==
    /\ pc = "madm_batch"
    /\ i < total_count
    /\ batch_ids' = Slice(all_list, i, batch_size)
    /\ call' = [ids |-> Slice(all_list, i, batch_size), names |-> {},
                action |-> action, mode |-> "batch"]
    /\ sent' = FALSE
    /\ salvage_idx' = 0
    /\ attempted' = Append(attempted, (i \div batch_size) + 1)
    /\ calls' = Append(calls, call')
    /\ mark' = Lengths(migration_summary)
    /\ batch_raised' = FALSE
    /\ bulk_none' = FALSE
    /\ pc' = "mdm_validate"
    /\ UNCHANGED <<op, outcome, paramVars, sideVars, all_ids, all_list, pages_fetched, total_count,
                   batches_total, i, migration_summary, batch_errors, sleeps, result,
                   summary, todo, exp_idx, bulk_data, exc, share_calls, malformed,
                   sums>>

MADM_BatchReturn ==
    /\ pc = "mdm_ret"
    /\ call.mode = "batch"
    /\ migration_summary' = Aggregate(migration_summary, summary)
    /\ sums' = AddSums(sums, summary)
    /\ pc' = "madm_next"
    /\ UNCHANGED <<op, outcome, paramVars, sideVars, all_ids, all_list, pages_fetched, total_count,
                   batches_total, i, batch_ids, batch_errors, salvage_idx, sleeps,
                   result, callVars, attempted, calls, mark, batch_raised, bulk_none>>

\* except Exception as e: record the batch error and enter salvage mode
MADM_BatchExcept ==
    /\ pc = "mdm_raised"
    /\ call.mode = "batch"
    /\ batch_errors' = Append(batch_errors, (i \div batch_size) + 1)
    /\ batch_raised' = TRUE
    /\ salvage_idx' = 1
    /\ IF OnBatchError = "salvage"
       THEN pc' = "madm_salvage" /\ UNCHANGED outcome
       ELSE pc' = "done" /\ outcome' = exc
    /\ UNCHANGED <<op, paramVars, sideVars, all_ids, all_list, pages_fetched, total_count,
                   batches_total, i, batch_ids, migration_summary, sleeps, result,
                   callVars, attempted, calls, sums, mark, bulk_none>>

\* the action salvage mode passes to migrate_datamodels: action=action
DMSalvageAction == action

MADM_SalvageStart ==
    /\ pc = "madm_salvage"
    /\ salvage_idx <= Len(batch_ids)
    /\ call' = [ids |-> <<batch_ids[salvage_idx]>>, names |-> {},
                action |-> DMSalvageAction, mode |-> "salvage"]
    /\ sent' = FALSE
    /\ calls' = Append(calls, call')
    /\ pc' = "mdm_validate"
    /\ UNCHANGED <<op, outcome, paramVars, sideVars, orchVars, summary, todo, exp_idx,
                   bulk_data, exc, share_calls, malformed, attempted, sums, mark,
                   batch_raised, bulk_none>>

MADM_SalvageReturn ==
    /\ pc = "mdm_ret"
    /\ call.mode = "salvage"
    /\ migration_summary' = Aggregate(migration_summary, summary)
    /\ sums' = AddSums(sums, summary)
    /\ salvage_idx' = salvage_idx + 1
    /\ pc' = "madm_salvage"
    /\ UNCHANGED <<op, outcome, paramVars, sideVars, all_ids, all_list, pages_fetched, total_count,
                   batches_total, i, batch_ids, batch_errors, sleeps, result,
                   callVars, attempted, calls, mark, batch_raised, bulk_none>>

MADM_SalvageExcept ==
    /\ pc = "mdm_raised"
    /\ call.mode = "salvage"
    /\ migration_summary' = SalvageFailure(migration_summary, batch_ids[salvage_idx])
    /\ sums' = [sums EXCEPT !.salvage_exc = @ + 1]
    /\ salvage_idx' = salvage_idx + 1
    /\ pc' = "madm_salvage"
    /\ UNCHANGED <<op, outcome, paramVars, sideVars, all_ids, all_list, pages_fetched, total_count,
                   batches_total, i, batch_ids, batch_errors, sleeps, result,
                   callVars, attempted, calls, mark, batch_raised, bulk_none>>

MADM_SalvageDone ==
    /\ pc = "madm_salvage"
    /\ salvage_idx > Len(batch_ids)
    /\ pc' = "madm_next"
    /\ UNCHANGED <<op, outcome, paramVars, sideVars, orchVars, callVars, histVars>>

MADM_NextBatch ==
    /\ pc = "madm_next"
    /\ sleeps' = IF MoreBatches(i, batch_size, total_count) THEN sleeps + 1 ELSE sleeps
    /\ i' = i + batch_size
    /\ pc' = "madm_batch"
    /\ UNCHANGED <<op, outcome, paramVars, sideVars, all_ids, all_list, pages_fetched, total_count,
                   batches_total, batch_ids, migration_summary, batch_errors,
                   salvage_idx, result, callVars, histVars>>

MADM_Finish ==
    /\ pc = "madm_batch"
    /\ i >= total_count
    /\ result' = FinalResult(migration_summary, total_count, batches_total, batch_errors)
    /\ outcome' = "returned"
    /\ pc' = "done"
    /\ UNCHANGED <<op, paramVars, sideVars, all_ids, all_list, pages_fetched, total_count,
                   batches_total, i, batch_ids, migration_summary, batch_errors,
                   salvage_idx, sleeps, callVars, histVars>>

\* ------------------------------------------------------------------------
\* migrate_dashboard_shares
\* ------------------------------------------------------------------------

\* source users and groups a dashboard can be shared with; a user stands for
\* its email and a group for its name, the keys the two environments share
Principals == 1..MaxPrincipals

NoShareSummary == [new_share_success_count |-> 0, share_fail_count |-> 0,
                   failed_dashboards |-> 0]

NoShareResult == [early |-> FALSE, total_dashboard_count |-> 0,
                  total_share_success_count |-> 0, total_share_fail_count |-> 0]

NoShares == [existing |-> {}, added |-> {}]

\* the group named "Everyone", which both environments have
Everyone == 1

\* a group's share carries the name it is mapped by; a user's share carries
\* the user's userName, and users are mapped by email
ShareNames(on_target) ==
    {f \in [Principals -> {"key", "other"}] :
        \A p \in Principals : f[p] = "other" => p \in on_target /\ p # Everyone}

IdleShares ==
    /\ source_dashboard_ids = <<>> /\ target_dashboard_ids = <<>>
    /\ user_mapping = [p \in Principals |-> None]
    /\ dash_idx = 0
    /\ share_migration_summary = NoShareSummary
    /\ dashboard_results = <<>>
    /\ ownership_posts = 0
    /\ share_result = NoShareResult
    /\ unmatched = 0
    /\ share_name = [p \in Principals |-> "key"]
    /\ last_shares = NoShares

\* user_mapping / group_mapping: target_user_map.get(email) for every source id
MappingOver(on_target) == [p \in Principals |-> IF p \in on_target THEN p ELSE None]

\* the argument checks, then Step 1: the four listings and the two mappings
MDS_Start ==
    /\ pc = "mds_start"
    /\ IF \/ source_dashboard_ids = <<>>
          \/ target_dashboard_ids = <<>>
          \/ Len(source_dashboard_ids) # Len(target_dashboard_ids)
       THEN /\ outcome' = "ValueError"
            /\ pc' = "done"
            /\ UNCHANGED <<user_mapping, dash_idx, share_result>>
       ELSE \/ \* a listing fails: except Exception returns the empty summary
               /\ share_result' = [NoShareResult EXCEPT !.early = TRUE]
               /\ outcome' = "returned"
               /\ pc' = "done"
               /\ UNCHANGED <<user_mapping, dash_idx>>
            \/ \E on_target \in SUBSET Principals :
                  /\ share_name \in ShareNames(on_target)
                  /\ user_mapping' = MappingOver(on_target)
                  /\ dash_idx' = 1
                  /\ pc' = "mds_dash"
                  /\ UNCHANGED <<outcome, share_result>>
    /\ UNCHANGED <<op, migrationVars, source_dashboard_ids, target_dashboard_ids,
                   share_migration_summary, dashboard_results, ownership_posts,
                   unmatched, share_name, last_shares, groupVars, mapVars, extraVars>>

\* new_shares: the source shares whose user or group has a target id
NewShares(shares) == {p \in shares : user_mapping[p] # None}

\* existing_share_keys: "user:<userName>" / "group:<name>" of the shares the
\* target dashboard holds, as far as they name a key of the mapping
ExistingShareKeys(existing) == {p \in existing : share_name[p] = "key"}

\* filtered_new_shares: new shares whose "user:<email>" / "group:<name>" is
\* not among the existing keys
FilteredNewShares(new, existing) == new \ ExistingShareKeys(existing)

\* answers to the request for the source dashboard's shares
SourceShareAnswers == {"fail", "nonjson", "ok"}

\* answers to the request(s) for the target dashboard's shares
TargetShareAnswers == {"none", "other", "403_retry_fail", "403_retry_ok", "200"}

\* the request with adminAccess=true and, after 403, the one without
TargetAnswer(first, second_ok) ==
    IF Retried("target_shares", first)
    THEN IF second_ok THEN "403_retry_ok" ELSE "403_retry_fail"
    ELSE first

\* response and response.status_code in [200, 201] after the POST of the
\* shares and, after 403, the POST without adminAccess
PostOk(first, second_ok) ==
    IF Retried("share_post", first) THEN second_ok ELSE first = "200"

DashResult(k, added, status) ==
    [source_id |-> source_dashboard_ids[k], target_id |-> target_dashboard_ids[k],
     shares_added |-> added, status |-> status]

\* what one iteration of the loop over the dashboard pairs leaves in the
\* summary and in dashboard_results
ShareIteration(k, src, shares, tget, existing, post_ok) ==
    LET sm == share_migration_summary
        new == NewShares(shares)
        filtered == FilteredNewShares(new, existing)
    IN  IF src = "fail"
        THEN [sm |-> [sm EXCEPT !.failed_dashboards = @ + 1], res |-> dashboard_results]
        ELSE IF shares = {}
        THEN [sm |-> sm, res |-> dashboard_results]
        ELSE IF tget \in {"none", "other"}
        THEN [sm |-> [sm EXCEPT !.failed_dashboards = @ + 1,
                                !.share_fail_count = @ + Cardinality(new)],
              res |-> dashboard_results]
        ELSE IF tget = "403_retry_fail"
        THEN [sm |-> [sm EXCEPT !.failed_dashboards = @ + 1,
                                !.share_fail_count = @ + Cardinality(new)],
              res |-> Append(dashboard_results, DashResult(k, 0, "Skipped"))]
        ELSE IF existing \cup filtered = {}
        THEN [sm |-> sm, res |-> dashboard_results]
        ELSE IF post_ok
        THEN [sm |-> [sm EXCEPT !.new_share_success_count = @ + Cardinality(filtered)],
              res |-> Append(dashboard_results,
                             DashResult(k, Cardinality(filtered), "Success"))]
        ELSE [sm |-> [sm EXCEPT !.failed_dashboards = @ + 1,
                                !.share_fail_count = @ + Cardinality(filtered)],
              res |-> Append(dashboard_results,
                             DashResult(k, Cardinality(filtered), "Failed"))]

\* whether the iteration reaches Step 3 and sends a change_owner request:
\* owner_differs says that the source owner has a target id and that the
\* target dashboard is not owned by it yet
OwnershipPosted(src, shares, tget, existing, owner_differs) ==
    /\ src = "ok" /\ shares # {}
    /\ tget \in {"403_retry_ok", "200"}
    /\ existing \cup FilteredNewShares(NewShares(shares), existing) # {}
    /\ change_ownership
    /\ owner_differs

\* the state one iteration leaves
Iterated(src, shares, tget, existing, post_ok, owner_differs) ==
    /\ share_migration_summary' =
          ShareIteration(dash_idx, src, shares, tget, existing, post_ok).sm
    /\ dashboard_results' =
          ShareIteration(dash_idx, src, shares, tget, existing, post_ok).res
    /\ unmatched' = IF src = "ok"
                    THEN unmatched + Cardinality({p \in shares : user_mapping[p] = None})
                    ELSE unmatched
    /\ ownership_posts' = IF OwnershipPosted(src, shares, tget, existing, owner_differs)
                          THEN ownership_posts + 1 ELSE ownership_posts
    /\ dash_idx' = dash_idx + 1
    /\ UNCHANGED <<outcome, pc>>

\* Step 2 (and 3): one dashboard pair.  owner_differs is a fact of the pair:
\* the source owner has a target id and does not own the target dashboard.
MDS_Dashboard ==
    /\ pc = "mds_dash"
    /\ dash_idx <= Len(source_dashboard_ids)
    /\ \E src \in SourceShareAnswers :
          IF src = "nonjson"
          THEN \* dashboard_shares_response.json() raises
               /\ outcome' = "Exception"
               /\ pc' = "done"
               /\ UNCHANGED <<dash_idx, share_migration_summary, dashboard_results,
                              ownership_posts, unmatched, none_answers, last_posted, last_shares,
                              owner_due>>
          ELSE \E owner_differs \in BOOLEAN :
               /\ owner_due' = IF owner_differs THEN owner_due + 1 ELSE owner_due
               /\ IF src = "fail"
                  THEN /\ Iterated(src, {}, "none", {}, FALSE, owner_differs)
                       /\ UNCHANGED <<none_answers, last_posted, last_shares>>
                  ELSE \E shares \in SUBSET Principals :
                       IF shares = {}
                       THEN /\ Iterated(src, shares, "none", {}, FALSE, owner_differs)
                            /\ UNCHANGED <<none_answers, last_posted, last_shares>>
                       ELSE \E tfirst \in FirstAnswers :
                            \E tsecond \in SecondAnswers("target_shares", tfirst) :
                            LET tget == TargetAnswer(tfirst, tsecond)
                                tnone == NoneRetried("target_shares", tfirst)
                            IN  IF tget \in {"none", "other", "403_retry_fail"}
                                THEN /\ Iterated(src, shares, tget, {}, FALSE, owner_differs)
                                     /\ none_answers' = none_answers \cup tnone
                                     /\ UNCHANGED <<last_posted, last_shares>>
                                ELSE \E existing \in
                                        SUBSET {p \in Principals : user_mapping[p] # None} :
                                     LET all_shares ==
                                            existing \cup
                                            FilteredNewShares(NewShares(shares), existing)
                                         owner_sent == change_ownership /\ owner_differs
                                     IN  IF all_shares = {}
                                         THEN /\ Iterated(src, shares, tget, existing, FALSE,
                                                          owner_differs)
                                              /\ none_answers' = none_answers \cup tnone
                                              /\ UNCHANGED <<last_posted, last_shares>>
                                         ELSE \E pfirst \in FirstAnswers,
                                                 ofirst \in (IF owner_sent THEN FirstAnswers
                                                             ELSE {"200"}) :
                                              \E psecond \in SecondAnswers("share_post", pfirst) :
                                              /\ Iterated(src, shares, tget, existing,
                                                          PostOk(pfirst, psecond), owner_differs)
                                              /\ last_posted' = all_shares
                                              /\ last_shares' =
                                                    [existing |-> existing,
                                                     added |-> FilteredNewShares(
                                                                  NewShares(shares), existing)]
                                              /\ none_answers' =
                                                    none_answers \cup tnone
                                                    \cup NoneRetried("share_post", pfirst)
                                                    \cup (IF owner_sent
                                                          THEN NoneRetried("change_owner", ofirst)
                                                          ELSE {})
    /\ UNCHANGED <<op, migrationVars, source_dashboard_ids, target_dashboard_ids,
                   user_mapping, share_result, share_name, groupVars, mapVars, toolVars, scriptVars, traceVars,
                   last_import>>

MDS_Finish ==
    /\ pc = "mds_dash"
    /\ dash_idx > Len(source_dashboard_ids)
    /\ share_result' =
          [early |-> FALSE,
           total_dashboard_count |-> Len(source_dashboard_ids),
           total_share_success_count |-> share_migration_summary.new_share_success_count,
           total_share_fail_count |-> share_migration_summary.share_fail_count]
    /\ outcome' = "returned"
    /\ pc' = "done"
    /\ UNCHANGED <<op, migrationVars, source_dashboard_ids, target_dashboard_ids,
                   user_mapping, dash_idx, share_migration_summary, dashboard_results,
                   ownership_posts, unmatched, share_name, last_shares,
                   groupVars, mapVars, extraVars>>

\* ------------------------------------------------------------------------
\* migrate_all_groups
\* ------------------------------------------------------------------------

\* a source group as far as the filter looks at it: no name, an excluded
\* name or another name; the system tenant or another tenant
GroupNames == {"", "Admins", "Everyone", "Sales"}

GroupKinds == [name : GroupNames, tenantId : {"system", "other"}]

GroupLists == UNION {[1..n -> GroupKinds] : n \in 0..MaxGroups}

NoGroupResult == [ok |-> FALSE, status |-> "running", source_count |-> 0,
                  eligible_count |-> 0, success_count |-> 0, failed_count |-> 0]

NoBulkAnswer == [status |-> "idle", valid |-> FALSE, listed |-> 0]

IdleGroups ==
    /\ source_groups = <<>> /\ eligible_count = 0
    /\ bulk_answer = NoBulkAnswer /\ group_result = NoGroupResult

\* Step 1: the source groups
MAG_FetchGroups ==
    /\ pc = "mag_groups"
    /\ \E o \in {"fail", "nonjson", "ok"}, gs \in GroupLists :
          IF o = "fail"
          THEN /\ group_result' = [NoGroupResult EXCEPT !.status = "failed"]
               /\ outcome' = "returned"
               /\ pc' = "done"
               /\ UNCHANGED source_groups
          ELSE IF o = "nonjson"
          THEN \* source_response.json() raises
               /\ outcome' = "Exception"
               /\ pc' = "done"
               /\ UNCHANGED <<source_groups, group_result>>
          ELSE IF gs = <<>>
          THEN /\ group_result' = [NoGroupResult EXCEPT !.ok = TRUE, !.status = "noop"]
               /\ outcome' = "returned"
               /\ pc' = "done"
               /\ UNCHANGED source_groups
          ELSE /\ source_groups' = gs
               /\ pc' = "mag_tenants"
               /\ UNCHANGED <<outcome, group_result>>
    /\ UNCHANGED <<op, migrationVars, shareVars, eligible_count, bulk_answer, mapVars, extraVars>>

\* bulk_group_data: named groups of the system tenant, the excluded names left out
ExcludedNames == {"Admins", "All users in system", "Everyone"}

Eligible(groups) ==
    SelectSeq(groups, LAMBDA g : /\ g.name # ""
                                 /\ g.name \notin ExcludedNames
                                 /\ g.tenantId = "system")

\* the system tenant, then Step 2: the filter
MAG_FetchTenants ==
    /\ pc = "mag_tenants"
    /\ \E o \in {"fail", "nosystem", "ok"} :
          IF o \in {"fail", "nosystem"}
          THEN /\ group_result' = [NoGroupResult EXCEPT !.status = "failed",
                                       !.source_count = Len(source_groups)]
               /\ outcome' = "returned"
               /\ pc' = "done"
               /\ UNCHANGED eligible_count
          ELSE IF Eligible(source_groups) = <<>>
          THEN /\ group_result' = [NoGroupResult EXCEPT !.ok = TRUE, !.status = "noop",
                                       !.source_count = Len(source_groups)]
               /\ outcome' = "returned"
               /\ pc' = "done"
               /\ UNCHANGED eligible_count
          ELSE /\ eligible_count' = Len(Eligible(source_groups))
               /\ pc' = "mag_post"
               /\ UNCHANGED <<outcome, group_result>>
    /\ UNCHANGED <<op, migrationVars, shareVars, source_groups, bulk_answer, mapVars, extraVars>>

SuccessCountNoFallback(answer, eligible) ==
    IF answer.status = "201" /\ answer.valid THEN answer.listed ELSE 0

\* success_count: one "Success" per group the 201 answer lists or, when the
\* answer cannot be read, per group that was sent
SuccessCount(answer, eligible) ==
    IF answer.status = "201"
    THEN IF answer.valid THEN answer.listed ELSE eligible
    ELSE 0

\* failed_count: every group that was sent, unless the answer is a 201
FailedCount(answer, eligible) == IF answer.status = "201" THEN 0 ELSE eligible

\* Steps 3 and 4: the bulk POST and the summary
MAG_BulkPost ==
    /\ pc = "mag_post"
    /\ \E st \in {"none", "201", "other"}, valid \in BOOLEAN, listed \in 0..MaxGroups :
          LET answer == [status |-> st, valid |-> valid /\ st = "201",
                         listed |-> IF valid /\ st = "201" THEN listed ELSE 0]
              ok == SuccessCount(answer, eligible_count) = eligible_count
          IN  /\ bulk_answer' = answer
              /\ group_result' =
                    [ok |-> ok,
                     status |-> IF ok THEN "success" ELSE "failed",
                     source_count |-> Len(source_groups),
                     eligible_count |-> eligible_count,
                     success_count |-> SuccessCount(answer, eligible_count),
                     failed_count |-> FailedCount(answer, eligible_count)]
    /\ outcome' = "returned"
    /\ pc' = "done"
    /\ UNCHANGED <<op, migrationVars, shareVars, source_groups, eligible_count, mapVars, extraVars>>

\* ------------------------------------------------------------------------
\* The mapping builds as steps: the user/group mapping of
\* migrate_dashboard_shares, the title mapping of migrate_dashboards and the
\* title lookup of migrate_datamodels.  A build from the listings map_src and
\* map_tgt is repeated, with runs over other target listings in between.
\* ------------------------------------------------------------------------

TargetIds == 1..MaxTargets

\* listings of distinct ids with their keys
RECURSIVE Listings(_)
Listings(ids) ==
    {<<>>} \cup UNION {{<<<<d, t>>>> \o rest : rest \in Listings(ids \ {d}), t \in Titles} :
                        d \in ids}

TargetListings == Listings(TargetIds)

\* the source side: nothing, or one entity under either key
SourceListings == {<<>>} \cup {<<<<1, t>>>> : t \in Titles}

MapKinds == {"users", "dashboards", "datamodels"}

NoMemo == [builds |-> 0, mapping |-> <<>>, interleaved |-> FALSE]

IdleMapping ==
    /\ map_kind = "idle" /\ map_src = <<>> /\ map_tgt = <<>>
    /\ target_by_key = EmptyIndex /\ source_to_target = <<>> /\ map_warnings = {}
    /\ remembered = NoMemo

\* the history kept of the builds: the first mapping, and how many followed
Remember(mapping) ==
    IF remembered.builds = 0
    THEN [builds |-> 1, mapping |-> mapping, interleaved |-> FALSE]
    ELSE [remembered EXCEPT !.builds = 2]

\* the mapping one build yields from the dict it filled
MappingOf(kind, src, dict) ==
    IF kind = "users" THEN UserMapping(src, dict)
    ELSE IF kind = "dashboards" THEN SourceToTarget(src, dict)
    ELSE ModelTargetIds(src, dict)

\* only the dashboard mapping logs a warning on a collision
WarningsOf(kind, src, dict) ==
    IF kind = "dashboards" THEN CollisionWarnings(src, dict) ELSE {}

MAP_Build ==
    /\ pc = "map_build"
    /\ target_by_key' = TitleToTargets(StartDict(target_by_key), map_tgt)
    /\ source_to_target' = MappingOf(map_kind, map_src, target_by_key')
    /\ map_warnings' = WarningsOf(map_kind, map_src, target_by_key')
    /\ remembered' = Remember(source_to_target')
    /\ UNCHANGED <<op, pc, outcome, migrationVars, shareVars, groupVars, extraVars,
                   map_kind, map_src, map_tgt>>

\* a run of the same code over another target listing
MAP_OtherRun ==
    /\ pc = "map_build"
    /\ \E tgt \in TargetListings :
          target_by_key' = TitleToTargets(StartDict(target_by_key), tgt)
    /\ remembered' = IF remembered.builds = 0 THEN remembered
                     ELSE [remembered EXCEPT !.interleaved = TRUE]
    /\ UNCHANGED <<op, pc, outcome, migrationVars, shareVars, groupVars, extraVars,
                   map_kind, map_src, map_tgt, source_to_target, map_warnings>>

\* ------------------------------------------------------------------------
\* Dashboard.add_dashboard_script and Dashboard.add_widget_script
\* (src/pysisense/dashboard.py).  Both change the owner of the dashboard to
\* executing_user, send the script and put the shares and the owner back.
\* ------------------------------------------------------------------------

ScriptOps == {"add_dashboard_script", "add_widget_script"}

\* what the client hands back: None, or a response with its status code
Statuses == {"none", "200", "204", "403", "404"}

\* bool(response): a status code below 400
Truthy(a) == a \in {"200", "204"}

\* return of the operation: a string, or an exception that leaves it
ScriptEnd(how, res) ==
    /\ outcome' = how
    /\ script_result' = res
    /\ pc' = "done"

\* if r is None or r.status_code != expected:
\*     error_message = r.json() if r else "No response received."
\*     return "Error: ..."
\* reads_error says whether that branch reads the body, parses whether the
\* expected answer's body is parsed
Checked(a, json_ok, expected, reads_error, parses, next) ==
    IF a = expected
    THEN IF parses /\ ~json_ok
         THEN ScriptEnd("Exception", "none")
         ELSE pc' = next /\ UNCHANGED <<outcome, script_result>>
    ELSE IF reads_error /\ a # "none" /\ Truthy(a) /\ ~json_ok
         THEN ScriptEnd("Exception", "none")
         ELSE ScriptEnd("returned", "error")

\* the original owner: dashboard_data[0].get("owner")
Script_GetDashboard ==
    /\ pc = "as_dash"
    /\ \E a \in Statuses, json_ok \in BOOLEAN :
          /\ last_response' = a
          /\ Checked(a, json_ok, "200", FALSE, TRUE, "as_shares")
    /\ UNCHANGED <<op, migrationVars, shareVars, groupVars, mapVars, toolVars, requestVars, traceVars,
                   executing_user, script_valid, dash_owner, dash_shares>>

\* the shares to restore later
Script_GetShares ==
    /\ pc = "as_shares"
    /\ \E a \in Statuses, json_ok \in BOOLEAN :
          /\ last_response' = a
          /\ Checked(a, json_ok, "200", TRUE, TRUE, "as_user")
    /\ UNCHANGED <<op, migrationVars, shareVars, groupVars, mapVars, toolVars, requestVars, traceVars,
                   executing_user, script_valid, dash_owner, dash_shares>>

\* access_mgmt.get_user(executing_user): a dict with USER_ID, or one without
\* when the listing fails or does not hold the user
Script_GetUser ==
    /\ pc = "as_user"
    /\ \E a \in Statuses, found \in BOOLEAN :
          /\ last_response' = a
          /\ IF Truthy(a) /\ found
             THEN pc' = "as_own" /\ UNCHANGED <<outcome, script_result>>
             ELSE ScriptEnd("returned", "error")
    /\ UNCHANGED <<op, migrationVars, shareVars, groupVars, mapVars, toolVars, requestVars, traceVars,
                   executing_user, script_valid, dash_owner, dash_shares>>

\* change_owner to executing_user, originalOwnerRule "edit"
Script_ChangeOwner ==
    /\ pc = "as_own"
    /\ \E a \in Statuses, json_ok \in BOOLEAN :
          /\ last_response' = a
          /\ Checked(a, json_ok, "200", TRUE, FALSE, "as_parse")
          /\ IF a = "200"
             THEN dash_owner' = "executing_user" /\ dash_shares' = "owner_changed"
             ELSE UNCHANGED <<dash_owner, dash_shares>>
    /\ UNCHANGED <<op, migrationVars, shareVars, groupVars, mapVars, toolVars, requestVars, traceVars,
                   executing_user, script_valid>>

\* json.dumps / json.loads of the script argument
Script_Parse ==
    /\ pc = "as_parse"
    /\ IF script_valid
       THEN pc' = "as_put" /\ UNCHANGED <<outcome, script_result>>
       ELSE ScriptEnd("returned", "error")
    /\ UNCHANGED <<op, migrationVars, shareVars, groupVars, mapVars, toolVars, requestVars, traceVars,
                   executing_user, script_valid, dash_owner, dash_shares, last_response>>

\* where the operation goes on after the script was accepted
AfterPut ==
    IF op = "add_widget_script" THEN "as_republish"
    ELSE IF executing_user THEN "as_restore_shares" ELSE "as_return"

\* the PUT of the script: the error branch reads script_response.status_code
\* after a try/except that guards only script_response.json()
Script_Put ==
    /\ pc = "as_put"
    /\ \E a \in Statuses :
          /\ last_response' = a
          /\ IF a = "200"
             THEN pc' = AfterPut /\ UNCHANGED <<outcome, script_result>>
             ELSE IF a = "none"
             THEN ScriptEnd("AttributeError", "none")
             ELSE ScriptEnd("returned", "error")
    /\ UNCHANGED <<op, migrationVars, shareVars, groupVars, mapVars, toolVars, requestVars, traceVars,
                   executing_user, script_valid, dash_owner, dash_shares>>

\* add_widget_script: republish_response.status_code is read without a check
Script_Republish ==
    /\ pc = "as_republish"
    /\ \E a \in Statuses, json_ok \in BOOLEAN :
          /\ last_response' = a
          /\ IF a = "none"
             THEN ScriptEnd("AttributeError", "none")
             ELSE IF a = "204"
             THEN /\ pc' = IF executing_user THEN "as_restore_shares" ELSE "as_return"
                  /\ UNCHANGED <<outcome, script_result>>
             ELSE IF Truthy(a) /\ ~json_ok
             THEN ScriptEnd("Exception", "none")
             ELSE ScriptEnd("returned", "error")
    /\ UNCHANGED <<op, migrationVars, shareVars, groupVars, mapVars, toolVars, requestVars, traceVars,
                   executing_user, script_valid, dash_owner, dash_shares>>

\* the shares read before the change of owner are posted back
Script_RestoreShares ==
    /\ pc = "as_restore_shares"
    /\ \E a \in Statuses, json_ok \in BOOLEAN :
          /\ last_response' = a
          /\ Checked(a, json_ok, "200", TRUE, FALSE, "as_restore_owner")
          /\ dash_shares' = IF a = "200" THEN "original" ELSE dash_shares
    /\ UNCHANGED <<op, migrationVars, shareVars, groupVars, mapVars, toolVars, requestVars, traceVars,
                   executing_user, script_valid, dash_owner>>

\* change_owner back to original_owner_id
Script_RestoreOwner ==
    /\ pc = "as_restore_owner"
    /\ \E a \in Statuses, json_ok \in BOOLEAN :
          /\ last_response' = a
          /\ Checked(a, json_ok, "200", TRUE, FALSE, "as_return")
          /\ dash_owner' = IF a = "200" THEN "original" ELSE dash_owner
    /\ UNCHANGED <<op, migrationVars, shareVars, groupVars, mapVars, toolVars, requestVars, traceVars,
                   executing_user, script_valid, dash_shares>>

\* return "... Script added successfully."
Script_Return ==
    /\ pc = "as_return"
    /\ ScriptEnd("returned", "ok")
    /\ UNCHANGED <<op, migrationVars, shareVars, groupVars, mapVars, toolVars, requestVars, traceVars,
                   executing_user, script_valid, dash_owner, dash_shares, last_response>>

\* ------------------------------------------------------------------------
\* Specifications
\* ------------------------------------------------------------------------

IdleRequests ==
    /\ none_answers = {} /\ last_posted = {} /\ last_import = NoImport /\ owner_due = 0
    /\ dashboard_response = "unset" /\ events = NoEvents

\* ------------------------------------------------------------------------
\* SisenseClient.get / post / put / patch / delete
\* ------------------------------------------------------------------------

Methods == {"GET", "POST", "PUT", "PATCH", "DELETE"}

\* status codes: the ones logged as success, the ones logged as an error,
\* and two of the others
StatusCodes == {200, 201, 204, 400, 404, 500, 302, 403}

NoResponse == [kind |-> "unset", status |-> 0, json |-> FALSE]

\* Python's None as the value of a call
NoneReturned == [kind |-> "None", status |-> 0, json |-> FALSE]

\* what requests.get / post / put / patch / delete does: a response with a
\* status and a body that parses as JSON or not, a RequestException, or an
\* exception of another class
TransportAnswers ==
    [kind : {"response"}, status : StatusCodes, json : BOOLEAN]
    \cup {[kind |-> k, status |-> 0, json |-> FALSE] : k \in {"RequestException", "TypeError"}}

\* except requests.exceptions.RequestException
Caught(kind) == kind = "RequestException"

\* the branch of the status check
LogLevel(resp) ==
    IF resp.status \in {200, 201, 204} THEN "debug"
    ELSE IF resp.status \in {400, 404, 500} THEN "error"
    ELSE "warning"

ReturnedOnSuccess(resp) == IF resp.status \in {200, 201, 204} THEN resp ELSE NoneReturned

\* return response
Returned(resp) == resp

IdleClient ==
    /\ method = "none" /\ response = NoResponse /\ returned = NoResponse
    /\ logged = "none"

\* ------------------------------------------------------------------------
\* WellCheck: the checks over references and run_full_wellcheck
\* ------------------------------------------------------------------------

RefNames == {"ref_a", "ref_b"}

\* a list item that is not a str
NotAStr == "not_a_str"

SeqsUpTo(S, n) == UNION {[1..k -> S] : k \in 0..n}

NoneGiven == [kind |-> "none", items |-> <<>>]

\* what a caller passes as dashboards / datamodels
RefArguments ==
    {NoneGiven}
    \cup {[kind |-> "str", items |-> <<r>>] : r \in RefNames}
    \cup {[kind |-> "list", items |-> l] : l \in SeqsUpTo(RefNames \cup {NotAStr}, MaxRefs)}

IsStr(x) == x # NotAStr

\* a single string becomes a one-element list, a list keeps its strings
Normalized(arg) ==
    IF arg.kind = "str" THEN arg.items
    ELSE LET isinstance(x) == IsStr(x) IN SelectSeq(arg.items, isinstance)

DashboardChecks == <<"structure", "widget_counts", "pivot_widget_fields">>

DatamodelChecks == <<"custom_tables", "island_tables", "rls_datatypes", "import_queries",
                     "m2m_relationships", "unused_columns">>

ReportKeys == {DashboardChecks[k] : k \in 1..Len(DashboardChecks)}
              \cup {DatamodelChecks[k] : k \in 1..Len(DatamodelChecks)}

NoRows == [k \in ReportKeys |-> <<>>]

NoReport == [dashboards |-> [k \in {} |-> <<>>], datamodels |-> [k \in {} |-> <<>>]]

IdleWell ==
    /\ dashboards = NoneGiven /\ datamodels = NoneGiven /\ max_pivot_fields = 20
    /\ dashboard_refs = <<>> /\ datamodel_refs = <<>>
    /\ answers = <<>> /\ results = <<>> /\ total_processed = 0 /\ warnings = {}
    /\ check_result = <<>> /\ sub_calls = <<>> /\ sub_rows = NoRows /\ report = NoReport

IdleTools == IdleClient /\ IdleWell

CheckOps == {"check_dashboard_structure", "check_datamodel_rls_datatypes"}

\* the argument the check reads and the references it normalizes it to
CheckArgument == IF op = "check_dashboard_structure" THEN dashboards ELSE datamodels
CheckRefs == IF op = "check_dashboard_structure" THEN dashboard_refs ELSE datamodel_refs

\* how many rows a processed reference adds: one row per dashboard in the
\* structure check, one row per distinct rule in the RLS check
RowCounts(o) == IF o = "check_dashboard_structure" THEN {1} ELSE 0..MaxRules

\* resolve_dashboard_reference / resolve_datamodel_reference return a dict;
\* when a reference is not found its "success" is false, and one found may
\* still come without an id
ResolveFailures == {"unresolved", "no_id"}

\* how one reference fares: resolve_..._reference answers without success,
\* or without an id; the request for the definition fails (None, a status
\* other than 200, a body that is not JSON); what came back cannot be used
\* (no row computed; no type or server, an unsupported type, no rules, a
\* payload that is not a list); or the reference is processed
ReferenceAnswers(o) ==
    {[kind |-> k, rows |-> 0] : k \in ResolveFailures \cup {"fetch_failed", "unusable"}}
    \cup {[kind |-> "ok", rows |-> n] : n \in RowCounts(o)}

RowsForEveryReference(k, a) == <<[ref |-> k]>>

\* the rows appended for the reference at position k
RowsFor(k, a) == IF a.kind = "ok" THEN [j \in 1..a.rows |-> [ref |-> k]] ELSE <<>>

\* the paths that log a warning and go on with the next reference
Warned(a) == a.kind \in ResolveFailures \cup {"fetch_failed", "unusable"}

\* the argument checks and the normalization
Check_Start ==
    /\ op \in CheckOps /\ pc = "wc_start"
    /\ IF CheckArgument.kind = "none" \/ Normalized(CheckArgument) = <<>>
       THEN /\ check_result' = <<>>
            /\ outcome' = "returned"
            /\ pc' = "done"
            /\ UNCHANGED <<dashboard_refs, datamodel_refs>>
       ELSE /\ IF op = "check_dashboard_structure"
               THEN dashboard_refs' = Normalized(dashboards) /\ UNCHANGED datamodel_refs
               ELSE datamodel_refs' = Normalized(datamodels) /\ UNCHANGED dashboard_refs
            /\ pc' = "wc_loop"
            /\ UNCHANGED <<check_result, outcome>>
    /\ UNCHANGED <<op, migrationVars, shareVars, groupVars, mapVars, requestVars,
                   scriptVars, traceVars, clientVars, dashboards, datamodels,
                   max_pivot_fields, answers, results, total_processed, warnings,
                   sub_calls, sub_rows, report>>

\* one pass of the loop over the references
Check_Reference ==
    /\ op \in CheckOps /\ pc = "wc_loop"
    /\ Len(answers) < Len(CheckRefs)
    /\ \E a \in ReferenceAnswers(op) :
          /\ answers' = Append(answers, a)
          /\ results' = results \o RowsFor(Len(answers) + 1, a)
          /\ total_processed' = IF a.kind = "ok" THEN total_processed + 1
                                 ELSE total_processed
          /\ warnings' = IF Warned(a) THEN warnings \cup {Len(answers) + 1} ELSE warnings
    /\ UNCHANGED <<op, pc, outcome, migrationVars, shareVars, groupVars, mapVars,
                   requestVars, scriptVars, traceVars, clientVars, dashboards, datamodels,
                   max_pivot_fields, dashboard_refs, datamodel_refs, check_result,
                   sub_calls, sub_rows, report>>

\* after the loop: the empty list when nothing was processed, else results
Check_Finish ==
    /\ op \in CheckOps /\ pc = "wc_loop"
    /\ Len(answers) = Len(CheckRefs)
    /\ check_result' = IF total_processed = 0 THEN <<>> ELSE results
    /\ outcome' = "returned"
    /\ pc' = "done"
    /\ UNCHANGED <<op, migrationVars, shareVars, groupVars, mapVars, requestVars,
                   scriptVars, traceVars, clientVars, dashboards, datamodels,
                   max_pivot_fields, dashboard_refs, datamodel_refs, answers, results,
                   total_processed, warnings, sub_calls, sub_rows, report>>

\* WellCheck.__init__ sets access_mgmt, so getattr(self, "access_mgmt", None)
\* finds it
AccessMgmt == "configured"

\* access_mgmt.get_unused_columns_bulk, which answers a list of rows as the
\* check methods do
Delegated == "unused_columns"

SubCheckCallDefaultMax(check, refs, max) ==
    [check |-> check, refs |-> refs,
     max_fields |-> IF check = "pivot_widget_fields" THEN 20 ELSE 0]

\* the arguments a sub-check is invoked with: the references, and max_fields
\* for the pivot check (0 stands for no such argument)
SubCheckCall(check, refs, max) ==
    [check |-> check, refs |-> refs,
     max_fields |-> IF check = "pivot_widget_fields" THEN max ELSE 0]

\* the sub-checks that run: all of a level, but the delegated one only with
\* access_mgmt configured
Invoked(checks) ==
    LET runs(c) == c # Delegated \/ AccessMgmt # "none"
    IN  SelectSeq(checks, runs)

CallsOf(checks, refs, max) ==
    [k \in 1..Len(Invoked(checks)) |-> SubCheckCall(Invoked(checks)[k], refs, max)]

\* what the sub-checks of one level answer: each its own rows, or at most
\* one of them the empty list
SubCheckRows(checks) ==
    LET names == {checks[j] : j \in 1..Len(checks)}
    IN  {[k \in names |-> IF k = quiet THEN <<>> ELSE <<[check |-> k]>>] :
            quiet \in names \cup {"none"}}

\* a section of the report: the rows of the sub-checks invoked, else []
Section(checks, invoked, rows) ==
    [k \in {checks[j] : j \in 1..Len(checks)} |->
        IF \E j \in 1..Len(invoked) : invoked[j] = k THEN rows[k] ELSE <<>>]

\* the normalization of both arguments
Full_Normalize ==
    /\ op = "run_full_wellcheck" /\ pc = "wf_normalize"
    /\ dashboard_refs' = (IF dashboards.kind = "none" THEN <<>> ELSE Normalized(dashboards))
    /\ datamodel_refs' = (IF datamodels.kind = "none" THEN <<>> ELSE Normalized(datamodels))
    /\ report' = [dashboards |-> Section(DashboardChecks, <<>>, NoRows),
                  datamodels |-> Section(DatamodelChecks, <<>>, NoRows)]
    /\ pc' = "wf_dashboards"
    /\ UNCHANGED <<op, outcome, migrationVars, shareVars, groupVars, mapVars, requestVars,
                   scriptVars, traceVars, clientVars, dashboards, datamodels,
                   max_pivot_fields, answers, results, total_processed, warnings,
                   check_result, sub_calls, sub_rows>>

\* the dashboard-level checks
Full_DashboardChecks ==
    /\ op = "run_full_wellcheck" /\ pc = "wf_dashboards"
    /\ IF dashboard_refs # <<>>
       THEN \E rows \in SubCheckRows(DashboardChecks) :
               /\ sub_calls' = sub_calls \o CallsOf(DashboardChecks, dashboard_refs,
                                                     max_pivot_fields)
               /\ sub_rows' = [k \in ReportKeys |->
                                  IF k \in DOMAIN rows THEN rows[k] ELSE sub_rows[k]]
               /\ report' = [report EXCEPT !.dashboards =
                                 Section(DashboardChecks, Invoked(DashboardChecks), rows)]
       ELSE UNCHANGED <<sub_calls, sub_rows, report>>
    /\ pc' = "wf_datamodels"
    /\ UNCHANGED <<op, outcome, migrationVars, shareVars, groupVars, mapVars, requestVars,
                   scriptVars, traceVars, clientVars, dashboards, datamodels,
                   max_pivot_fields, dashboard_refs, datamodel_refs, answers, results,
                   total_processed, warnings, check_result>>

\* the data-model-level checks, the delegated unused-columns analysis last,
\* and the return of the report
Full_DatamodelChecks ==
    /\ op = "run_full_wellcheck" /\ pc = "wf_datamodels"
    /\ IF datamodel_refs # <<>>
       THEN \E rows \in SubCheckRows(DatamodelChecks) :
               /\ sub_calls' = sub_calls \o CallsOf(DatamodelChecks, datamodel_refs,
                                                     max_pivot_fields)
               /\ sub_rows' = [k \in ReportKeys |->
                                  IF k \in DOMAIN rows THEN rows[k] ELSE sub_rows[k]]
               /\ report' = [report EXCEPT !.datamodels =
                                 Section(DatamodelChecks, Invoked(DatamodelChecks), rows)]
       ELSE UNCHANGED <<sub_calls, sub_rows, report>>
    /\ outcome' = "returned"
    /\ pc' = "done"
    /\ UNCHANGED <<op, migrationVars, shareVars, groupVars, mapVars, requestVars,
                   scriptVars, traceVars, clientVars, dashboards, datamodels,
                   max_pivot_fields, dashboard_refs, datamodel_refs, answers, results,
                   total_processed, warnings, check_result>>

\* the call of the requests library inside the try block
Client_Request ==
    /\ op = "client" /\ pc = "cl_request"
    /\ \E a \in TransportAnswers :
          /\ response' = a
          /\ IF a.kind = "response"
             THEN /\ pc' = "cl_status"
                  /\ UNCHANGED <<outcome, returned, logged>>
             ELSE IF Caught(a.kind)
             THEN /\ logged' = "error"
                  /\ returned' = NoneReturned
                  /\ outcome' = "returned"
                  /\ pc' = "done"
             ELSE /\ outcome' = a.kind
                  /\ pc' = "done"
                  /\ UNCHANGED <<returned, logged>>
    /\ UNCHANGED <<op, migrationVars, shareVars, groupVars, mapVars, requestVars,
                   scriptVars, traceVars, wellVars, method>>

\* the status check and the return of the response
Client_Return ==
    /\ op = "client" /\ pc = "cl_status"
    /\ logged' = LogLevel(response)
    /\ returned' = Returned(response)
    /\ outcome' = "returned"
    /\ pc' = "done"
    /\ UNCHANGED <<op, migrationVars, shareVars, groupVars, mapVars, requestVars,
                   scriptVars, traceVars, wellVars, method, response>>

IdleScripts ==
    /\ executing_user = FALSE /\ script_valid = TRUE
    /\ dash_owner = "original" /\ dash_shares = "original"
    /\ last_response = "unset" /\ script_result = "none"

IdleOrch ==
    /\ all_ids = {} /\ all_list = <<>> /\ pages_fetched = 0 /\ total_count = 0 /\ batches_total = 0
    /\ i = 0 /\ batch_ids = <<>> /\ migration_summary = EmptySummary
    /\ batch_errors = <<>> /\ salvage_idx = 0 /\ sleeps = 0 /\ result = NoResult

IdleCall ==
    /\ summary = EmptySummary /\ todo = <<>> /\ exp_idx = 1 /\ bulk_data = <<>>
    /\ sent = FALSE /\ exc = "none" /\ share_calls = <<>> /\ malformed = {}

IdleHist ==
    /\ attempted = <<>> /\ calls = <<>> /\ sums = NoSums /\ mark = NoMark
    /\ batch_raised = FALSE /\ bulk_none = FALSE

InitAllDashboardsWith(sizes, callbacks) ==
    /\ op = "migrate_all_dashboards"
    /\ pc = "mad_fetch"
    /\ outcome = "running"
    /\ action \in ActionValues
    /\ migrate_share \in BOOLEAN
    /\ change_ownership \in BOOLEAN
    /\ batch_size \in sizes
    /\ emit \in callbacks
    /\ call = NoCall
    /\ IdleOrch /\ IdleCall /\ IdleHist /\ IdleShares /\ IdleGroups /\ IdleMapping
    /\ IdleRequests /\ IdleTools /\ IdleScripts

\* batch_size is a number of dashboards
InitAllDashboards == InitAllDashboardsWith(1..MaxBatch, {"none"})

\* dashboard_ids as passed by a direct caller: None/empty or some ids
DirectIdArgs == {<<>>} \cup {SortedSeq(S) : S \in (SUBSET Ids) \ {{}}}

DirectModelArgs == {<<>>} \cup {SortedSeq(S) : S \in (SUBSET ModelIds) \ {{}}}

InitDashboardsWith(callbacks) ==
    /\ op = "migrate_dashboards"
    /\ pc = "md_validate"
    /\ outcome = "running"
    /\ emit \in callbacks
    /\ action \in ActionValues
    /\ migrate_share \in BOOLEAN
    /\ change_ownership \in BOOLEAN
    /\ batch_size = 1
    /\ \E ids \in DirectIdArgs, names \in SUBSET Titles :
          call = [ids |-> ids, names |-> names, action |-> action, mode |-> "direct"]
    /\ IdleOrch /\ IdleCall /\ IdleHist /\ IdleShares /\ IdleGroups /\ IdleMapping
    /\ IdleRequests /\ IdleTools /\ IdleScripts

\* a caller that passes no callback
InitDashboards == InitDashboardsWith({"none"})

\* datamodel actions of the data-model calls; shares is held in migrate_share
DMActionValues == {"none", "overwrite", "duplicate"}

InitAllDatamodels ==
    /\ op = "migrate_all_datamodels"
    /\ pc = "madm_fetch"
    /\ outcome = "running"
    /\ action \in DMActionValues
    /\ migrate_share \in BOOLEAN
    /\ change_ownership = FALSE
    /\ batch_size \in 1..MaxBatch
    /\ call = NoCall
    /\ IdleOrch /\ IdleCall /\ IdleHist /\ IdleShares /\ IdleGroups /\ IdleMapping
    /\ IdleRequests /\ IdleTools /\ IdleScripts
    /\ emit = "none"

InitDatamodels ==
    /\ op = "migrate_datamodels"
    /\ pc = "mdm_validate"
    /\ outcome = "running"
    /\ action \in DMActionValues
    /\ migrate_share \in BOOLEAN
    /\ change_ownership = FALSE
    /\ batch_size = 1
    /\ \E ids \in DirectModelArgs, names \in SUBSET Titles :
          call = [ids |-> ids, names |-> names, action |-> action, mode |-> "direct"]
    /\ IdleOrch /\ IdleCall /\ IdleHist /\ IdleShares /\ IdleGroups /\ IdleMapping
    /\ IdleRequests /\ IdleTools /\ IdleScripts
    /\ emit = "none"

NextDashboards ==
    \/ MD_Validate \/ MD_ResolveByNames \/ MD_ExportOne \/ MD_ExportDone
    \/ MD_BulkImport \/ MD_MigrateShares \/ MD_DirectReturn \/ MD_DirectRaise
    \/ MAD_FetchPage \/ MAD_Plan \/ MAD_BatchStart \/ MAD_BatchReturn
    \/ MAD_BatchExcept \/ MAD_SalvageStart \/ MAD_SalvageReturn
    \/ MAD_SalvageExcept \/ MAD_SalvageDone \/ MAD_NextBatch \/ MAD_Finish

NextDatamodels ==
    \/ MDM_Validate \/ MDM_ResolveByNames \/ MDM_ExportOne \/ MDM_ExportDone
    \/ MDM_ImportOne \/ MDM_ImportDone \/ MDM_Shares \/ MDM_DirectReturn
    \/ MDM_DirectRaise
    \/ MADM_FetchPage \/ MADM_Plan \/ MADM_BatchStart \/ MADM_BatchReturn
    \/ MADM_BatchExcept \/ MADM_SalvageStart \/ MADM_SalvageReturn
    \/ MADM_SalvageExcept \/ MADM_SalvageDone \/ MADM_NextBatch \/ MADM_Finish

\* migrate_all_dashboards and direct calls of migrate_dashboards
SpecDashboards == (InitAllDashboards \/ InitDashboards) /\ [][NextDashboards]_vars

\* the dashboard migrations called with a progress callback
SpecEvents ==
    /\ \/ InitAllDashboardsWith({MaxBatch}, {"returns", "raises"})
       \/ InitDashboardsWith({"returns", "raises"})
    /\ [][NextDashboards]_vars

\* migrate_all_dashboards with any integer passed as batch_size
SpecAnyBatch ==
    /\ InitAllDashboardsWith((0 - MaxBatch)..MaxBatch, {"none"}) \/ InitDashboards
    /\ [][NextDashboards \/ MAD_RangeError]_vars

\* migrate_all_datamodels and direct calls of migrate_datamodels
SpecDatamodels == (InitAllDatamodels \/ InitDatamodels) /\ [][NextDatamodels]_vars

NextMigrations ==
    \/ MD_Validate \/ MD_ResolveByNames \/ MD_ExportOne \/ MD_ExportDone
    \/ MD_BulkImport \/ MD_MigrateShares \/ MD_DirectReturn \/ MD_DirectRaise
    \/ MAD_FetchPage \/ MAD_Plan \/ MAD_BatchStart \/ MAD_BatchReturn
    \/ MAD_BatchExcept \/ MAD_SalvageStart \/ MAD_SalvageReturn
    \/ MAD_SalvageExcept \/ MAD_SalvageDone \/ MAD_NextBatch \/ MAD_Finish
    \/ MDM_Validate \/ MDM_ResolveByNames \/ MDM_ExportOne \/ MDM_ExportDone
    \/ MDM_ImportOne \/ MDM_ImportDone \/ MDM_Shares \/ MDM_DirectReturn
    \/ MDM_DirectRaise
    \/ MADM_FetchPage \/ MADM_Plan \/ MADM_BatchStart \/ MADM_BatchReturn
    \/ MADM_BatchExcept \/ MADM_SalvageStart \/ MADM_SalvageReturn
    \/ MADM_SalvageExcept \/ MADM_SalvageDone \/ MADM_NextBatch \/ MADM_Finish

\* the four migration operations together
SpecMigrations ==
    /\ InitAllDashboards \/ InitDashboards \/ InitAllDatamodels \/ InitDatamodels
    /\ [][NextMigrations]_vars

IdleMigration ==
    /\ action = "none" /\ migrate_share = FALSE /\ batch_size = 1
    /\ call = NoCall
    /\ IdleOrch /\ IdleCall /\ IdleHist

\* share names that are the keys of the mapping throughout
KeyNames == [p \in Principals |-> "key"]

InitSharesWith(pairs, names) ==
    /\ op = "migrate_dashboard_shares"
    /\ pc = "mds_start"
    /\ outcome = "running"
    /\ change_ownership \in BOOLEAN
    /\ IdleMigration /\ IdleGroups /\ IdleMapping
    /\ IdleRequests /\ IdleTools /\ IdleScripts
    /\ emit = "none"
    /\ \E n, m \in 0..pairs :
          /\ source_dashboard_ids = [k \in 1..n |-> k]
          /\ target_dashboard_ids = [k \in 1..m |-> k]
    /\ user_mapping = [p \in Principals |-> None]
    /\ dash_idx = 0
    /\ share_migration_summary = NoShareSummary
    /\ dashboard_results = <<>>
    /\ ownership_posts = 0
    /\ share_result = NoShareResult
    /\ unmatched = 0
    /\ share_name \in names
    /\ last_shares = NoShares

InitSharesUpTo(pairs) == InitSharesWith(pairs, {KeyNames})

InitShares == InitSharesWith(MaxShareDash, ShareNames(Principals))

NextShares == MDS_Start \/ MDS_Dashboard \/ MDS_Finish

InitClient ==
    /\ op = "client"
    /\ pc = "cl_request"
    /\ outcome = "running"
    /\ change_ownership = FALSE
    /\ IdleMigration /\ IdleShares /\ IdleGroups /\ IdleMapping
    /\ IdleRequests /\ IdleScripts
    /\ emit = "none"
    /\ method \in Methods
    /\ response = NoResponse /\ returned = NoResponse /\ logged = "none"
    /\ IdleWell

NextClient == Client_Request \/ Client_Return

\* one call of a SisenseClient request method
SpecClient == InitClient /\ [][NextClient]_vars

IdleButTools ==
    /\ change_ownership = FALSE
    /\ IdleMigration /\ IdleShares /\ IdleGroups /\ IdleMapping
    /\ IdleRequests /\ IdleScripts
    /\ emit = "none"
    /\ IdleClient

InitChecks ==
    /\ op \in CheckOps
    /\ pc = "wc_start"
    /\ outcome = "running"
    /\ IdleButTools
    /\ IF op = "check_dashboard_structure"
       THEN dashboards \in RefArguments /\ datamodels = NoneGiven
       ELSE datamodels \in RefArguments /\ dashboards = NoneGiven
    /\ max_pivot_fields = 20
    /\ dashboard_refs = <<>> /\ datamodel_refs = <<>>
    /\ answers = <<>> /\ results = <<>> /\ total_processed = 0 /\ warnings = {}
    /\ check_result = <<>> /\ sub_calls = <<>> /\ sub_rows = NoRows /\ report = NoReport

NextChecks == Check_Start \/ Check_Reference \/ Check_Finish

\* check_dashboard_structure and check_datamodel_rls_datatypes
SpecChecks == InitChecks /\ [][NextChecks]_vars

InitFull ==
    /\ op = "run_full_wellcheck"
    /\ pc = "wf_normalize"
    /\ outcome = "running"
    /\ IdleButTools
    /\ dashboards \in RefArguments /\ datamodels \in RefArguments
    /\ max_pivot_fields \in {20, 30}
    /\ dashboard_refs = <<>> /\ datamodel_refs = <<>>
    /\ answers = <<>> /\ results = <<>> /\ total_processed = 0 /\ warnings = {}
    /\ check_result = <<>> /\ sub_calls = <<>> /\ sub_rows = NoRows /\ report = NoReport

NextFull == Full_Normalize \/ Full_DashboardChecks \/ Full_DatamodelChecks

\* run_full_wellcheck
SpecFull == InitFull /\ [][NextFull]_vars

\* migrate_dashboard_shares
SpecShares == InitShares /\ [][NextShares]_vars

NextRequests ==
    \/ MD_Validate \/ MD_ResolveByNames \/ MD_ExportOne \/ MD_ExportDone
    \/ MD_BulkImport \/ MD_MigrateShares \/ MD_DirectReturn \/ MD_DirectRaise
    \/ MDS_Start \/ MDS_Dashboard \/ MDS_Finish

\* direct calls of migrate_dashboards and of migrate_dashboard_shares
SpecRequests ==
    (InitDashboards \/ InitSharesUpTo(MaxRequestDash)) /\ [][NextRequests]_vars

InitGroups ==
    /\ op = "migrate_all_groups"
    /\ pc = "mag_groups"
    /\ outcome = "running"
    /\ change_ownership = FALSE
    /\ IdleMigration /\ IdleShares /\ IdleGroups /\ IdleMapping
    /\ IdleRequests /\ IdleTools /\ IdleScripts
    /\ emit = "none"

NextGroups == MAG_FetchGroups \/ MAG_FetchTenants \/ MAG_BulkPost

\* migrate_all_groups
SpecGroups == InitGroups /\ [][NextGroups]_vars

InitMapping ==
    /\ op = "mapping"
    /\ pc = "map_build"
    /\ outcome = "running"
    /\ change_ownership = FALSE
    /\ IdleMigration /\ IdleShares /\ IdleGroups
    /\ IdleRequests /\ IdleTools /\ IdleScripts
    /\ emit = "none"
    /\ map_kind \in MapKinds
    /\ map_src \in SourceListings
    /\ map_tgt \in TargetListings
    /\ target_by_key = EmptyIndex /\ source_to_target = <<>> /\ map_warnings = {}
    /\ remembered = NoMemo

NextMapping == MAP_Build \/ MAP_OtherRun

\* the mapping builds, repeated
SpecMapping == InitMapping /\ [][NextMapping]_vars

InitScripts ==
    /\ op \in ScriptOps
    /\ outcome = "running"
    /\ change_ownership = FALSE
    /\ IdleMigration /\ IdleShares /\ IdleGroups /\ IdleMapping /\ IdleRequests /\ IdleTools
    /\ emit = "none"
    /\ executing_user \in BOOLEAN
    /\ script_valid \in BOOLEAN
    /\ pc = IF executing_user THEN "as_dash" ELSE "as_parse"
    /\ dash_owner = "original" /\ dash_shares = "original"
    /\ last_response = "unset" /\ script_result = "none"

NextScripts ==
    \/ Script_GetDashboard \/ Script_GetShares \/ Script_GetUser \/ Script_ChangeOwner
    \/ Script_Parse \/ Script_Put \/ Script_Republish \/ Script_RestoreShares
    \/ Script_RestoreOwner \/ Script_Return

\* add_dashboard_script and add_widget_script
SpecScripts == InitScripts /\ [][NextScripts]_vars

\* ------------------------------------------------------------------------
\* Properties of the batch orchestration
\* ------------------------------------------------------------------------

\* the entries the run summary gained since the current batch started
NewEntries ==
    SubSeq(migration_summary.succeeded, mark.succeeded + 1, Len(migration_summary.succeeded))
    \o SubSeq(migration_summary.skipped, mark.skipped + 1, Len(migration_summary.skipped))
    \o SubSeq(migration_summary.failed, mark.failed + 1, Len(migration_summary.failed))

\* how many of the new entries carry the source id d
TimesRecorded(d) == Cardinality({k \in 1..Len(NewEntries) : NewEntries[k].sid = d})

\* a batch of migrate_all_dashboards has been dealt with completely
BatchOver == op = "migrate_all_dashboards" /\ pc = "mad_next"

C2_TransportFailureEntersSalvage ==
    (BatchOver /\ bulk_none) =>
        /\ batch_raised
        /\ \E k \in 1..Len(calls) : calls[k].mode = "salvage" /\ calls[k].action = "skip"

\* C2, amended: when the bulk-import request of a batch fails at the transport,
\* migrate_dashboards returns normally, salvage mode is not entered, every
\* dashboard that was exported is recorded as failed, and the entries recorded
\* for the batch number the batch size.
C2_TransportFailureRecordsFailed ==
    (BatchOver /\ bulk_none) =>
        /\ ~batch_raised
        /\ calls[Len(calls)].mode = "batch"
        /\ Len(migration_summary.succeeded) = mark.succeeded
        /\ Len(migration_summary.skipped) = mark.skipped
        /\ Len(NewEntries) = Len(batch_ids)
        /\ \A k \in 1..Len(batch_ids) : TimesRecorded(batch_ids[k]) = 1

C2_Witness ==
    /\ BatchOver /\ bulk_none
    /\ Len(batch_ids) = 2
    /\ Len(bulk_data) = 2
    /\ Len(migration_summary.failed) = mark.failed + 2

\* C3: for batch_size >= 1, an exception raised by the call that processes a
\* batch never leaves migrate_all_dashboards or migrate_all_datamodels: the
\* batches are attempted in order, every batch is attempted, and the run ends
\* by returning its summary.
C3_BatchErrorNeverAborts ==
    (batch_errors # <<>>) =>
        /\ batch_size >= 1
        /\ outcome \in {"running", "returned"}
        /\ attempted = [k \in 1..Len(attempted) |-> k]
        /\ (pc = "done") =>
              /\ outcome = "returned"
              /\ Len(attempted) = batches_total
              /\ result.batch_errors_count = Len(batch_errors)

C3_Witness ==
    /\ op = "migrate_all_datamodels"
    /\ pc = "done"
    /\ outcome = "returned"
    /\ batch_errors = <<1>>
    /\ attempted = <<1, 2>>

\* C4: in migrate_all_datamodels every salvage call uses a conservative
\* action, never "overwrite" or "duplicate", whatever the caller passed.
C4_SalvageActionConservative ==
    (op = "migrate_all_datamodels") =>
        \A k \in 1..Len(calls) :
            calls[k].mode = "salvage" => calls[k].action \notin {"overwrite", "duplicate"}

\* C5: in migrate_all_dashboards a batch whose migrate_dashboards call returns
\* normally adds every entry the call reported to the run summary, and the
\* final counts are the sums of the per-call results (plus, for failed, one
\* per salvage retry that raised).
C5_AggregateEqualsSums ==
    (op = "migrate_all_dashboards") =>
        /\ (pc = "mad_next" /\ ~batch_raised) =>
              /\ Len(migration_summary.succeeded) = mark.succeeded + Len(summary.succeeded)
              /\ Len(migration_summary.skipped) = mark.skipped + Len(summary.skipped)
              /\ Len(migration_summary.failed) = mark.failed + Len(summary.failed)
        /\ (pc = "done" /\ result.status \in {"success", "failed"} /\ ~result.raw_error) =>
              /\ result.succeeded_count = sums.succeeded
              /\ result.skipped_count = sums.skipped
              /\ result.failed_count = sums.failed + sums.salvage_exc
              /\ (batch_errors = <<>>) => result.failed_count = sums.failed

C5_Witness ==
    /\ op = "migrate_all_dashboards"
    /\ pc = "done"
    /\ batch_errors = <<>>
    /\ batches_total = 2
    /\ result.succeeded_count = 1
    /\ result.skipped_count = 1
    /\ result.failed_count = 1

\* the argument combinations the two calls reject
BadDashboardArgs ==
    \/ call.ids # <<>> /\ call.names # {}
    \/ call.ids = <<>> /\ call.names = {}
    \/ change_ownership /\ ~migrate_share

BadDatamodelArgs ==
    \/ call.ids # <<>> /\ call.names # {}
    \/ call.ids = <<>> /\ call.names = {}

\* C10: migrate_dashboards called with both or neither of dashboard_ids and
\* dashboard_names, or with change_ownership and without migrate_share, and
\* migrate_datamodels called with both or neither of datamodel_ids and
\* datamodel_names, raise ValueError before any request has been sent.
C10_InvalidArgsRaiseBeforeRequests ==
    /\ (op = "migrate_dashboards" /\ BadDashboardArgs) =>
          /\ sent = FALSE
          /\ outcome \in {"running", "ValueError"}
          /\ (pc # "md_validate") => exc = "ValueError"
    /\ (op = "migrate_datamodels" /\ BadDatamodelArgs) =>
          /\ sent = FALSE
          /\ outcome \in {"running", "ValueError"}
          /\ (pc # "mdm_validate") => exc = "ValueError"

C10_Witness ==
    /\ op = "migrate_dashboards"
    /\ pc = "done"
    /\ outcome = "ValueError"
    /\ call.ids # <<>> /\ call.names = {}
    /\ change_ownership /\ ~migrate_share

\* a batch orchestrator is the running operation
Orchestrating == op \in {"migrate_all_dashboards", "migrate_all_datamodels"}

\* the next batch is about to start
BeforeNextBatch == pc \in {"mad_batch", "madm_batch"} /\ i < total_count

\* C14: in migrate_all_dashboards and migrate_all_datamodels the sleep happens
\* once between two consecutive batches and never before the first or after
\* the last one: while batch k is processed k-1 sleeps have happened, and a run
\* of k >= 1 batches ends with k-1 sleeps, salvage or not.
C14_SleepsBetweenBatches ==
    Orchestrating =>
        /\ (attempted = <<>>) => sleeps = 0
        /\ (attempted # <<>>) =>
              sleeps = IF BeforeNextBatch THEN Len(attempted) ELSE Len(attempted) - 1
        /\ (pc = "done" /\ outcome = "returned" /\ attempted # <<>>) =>
              /\ Len(attempted) = batches_total
              /\ sleeps = batches_total - 1

C14_Witness ==
    /\ op = "migrate_all_datamodels"
    /\ pc = "done" /\ outcome = "returned"
    /\ batches_total = 2
    /\ batch_errors = <<1>>
    /\ sleeps = 1

\* the batch calls made so far, in order
BatchCalls == SelectSeq(calls, LAMBDA c : c.mode = "batch")

RECURSIVE IdsOf(_)
IdsOf(cs) == IF cs = <<>> THEN <<>> ELSE Head(cs).ids \o IdsOf(Tail(cs))

\* C15: for batch_size >= 1, migrate_all_dashboards submits every distinct
\* dashboard id it discovered in exactly one batch: the batches are consecutive
\* slices of the duplicate-free id list, each of batch_size ids except possibly
\* the last, and the number of batches processed is the reported batches_total.
C15_BatchesPartitionIds ==
    (op = "migrate_all_dashboards" /\ total_count > 0) =>
        /\ batch_size >= 1
        /\ Range(all_list) = all_ids
        /\ Len(all_list) = Cardinality(all_ids)
        /\ Len(IdsOf(BatchCalls)) <= Len(all_list)
        /\ IdsOf(BatchCalls) = SubSeq(all_list, 1, Len(IdsOf(BatchCalls)))
        /\ \A k \in 1..Len(BatchCalls) :
              /\ Len(BatchCalls[k].ids) \in 1..batch_size
              /\ (k < Len(BatchCalls)) => Len(BatchCalls[k].ids) = batch_size
        /\ (pc = "done" /\ outcome = "returned") =>
              /\ IdsOf(BatchCalls) = all_list
              /\ Len(BatchCalls) = result.batches_total

C15_Witness ==
    /\ op = "migrate_all_dashboards"
    /\ pc = "done" /\ outcome = "returned"
    /\ pages_fetched = 2
    /\ batch_size = 2
    /\ Len(all_list) = 3
    /\ Len(BatchCalls) = 2
    /\ result.batches_total = 2

\* the entries of the running call's result that carry the source id d
RecordedIn(list, d) == Cardinality({k \in 1..Len(list) : list[k].sid = d})

\* the import of the data model imported last was answered 404 under overwrite
OverwriteNotFound ==
    /\ op \in {"migrate_datamodels", "migrate_all_datamodels"}
    /\ call.action = "overwrite"
    /\ last_import.sid # None
    /\ last_import.answers[1] = "404"

\* C18: in migrate_datamodels with action "overwrite", an import answered 404
\* is sent once more, without the datamodelId parameter, and the data model is
\* recorded once: in succeeded if the second request is answered 201, in
\* failed otherwise.
C18_OverwriteNotFoundRetriedOnce ==
    OverwriteNotFound =>
        /\ last_import.queries = <<"datamodelId", "plain">>
        /\ Len(last_import.answers) = 2
        /\ RecordedIn(summary.succeeded, last_import.sid)
              + RecordedIn(summary.skipped, last_import.sid)
              + RecordedIn(summary.failed, last_import.sid) = 1
        /\ RecordedIn(summary.succeeded, last_import.sid) =
              (IF last_import.answers[2] = "201" THEN 1 ELSE 0)
        /\ RecordedIn(summary.failed, last_import.sid) =
              (IF last_import.answers[2] = "201" THEN 0 ELSE 1)

C18_Witness ==
    /\ OverwriteNotFound
    /\ last_import.answers = <<"404", "201">>
    /\ RecordedIn(summary.succeeded, last_import.sid) = 1
    /\ Len(summary.failed) = 1

\* ------------------------------------------------------------------------
\* Properties of the share migration, the mappings and the group migration
\* ------------------------------------------------------------------------

\* C6: every source share of migrate_dashboard_shares whose user or group has
\* no match in the target is reported in the returned result: the result
\* counts it as failed.
C6_UnmatchedSharesReported ==
    (op = "migrate_dashboard_shares" /\ pc = "done" /\ outcome = "returned") =>
        share_result.total_share_fail_count >= unmatched

\* C7: building a name-based mapping again from the same source listing and
\* the same target listing yields the mapping of the first build, whatever
\* ran in between.
C7_MappingIdempotent ==
    (op = "mapping" /\ remembered.builds >= 1) => source_to_target = remembered.mapping

C7_Witness ==
    /\ op = "mapping"
    /\ map_kind = "dashboards"
    /\ remembered.builds = 2 /\ remembered.interleaved
    /\ target_by_key = TitleToTargets(EmptyIndex, map_tgt)
    /\ source_to_target = <<<<1, 2>>>>
    /\ map_warnings # {}

\* the target ids that carry the key k in the listing map_tgt
Carrying(k) == TitleToTargets(EmptyIndex, map_tgt)[k]

\* C8: when several target dashboards or data models carry the title of a
\* source entity, the mapping takes the first of them and a warning is logged
\* for the title.
C8_CollisionTakesFirstAndWarns ==
    (op = "mapping" /\ map_kind \in {"dashboards", "datamodels"} /\ remembered.builds >= 1) =>
        \A k \in 1..Len(map_src) :
            Len(Carrying(map_src[k][2])) > 1 =>
                /\ <<map_src[k][1], Carrying(map_src[k][2])[1]>> \in Range(source_to_target)
                /\ map_src[k][2] \in map_warnings

\* the eligible groups of the source listing, counted from the listing
EligibleN ==
    Cardinality({k \in 1..Len(source_groups) :
                    /\ source_groups[k].name \notin
                          {"", "Admins", "All users in system", "Everyone"}
                    /\ source_groups[k].tenantId = "system"})

\* the bulk answer reports every group that was sent as created
AllCreated ==
    /\ bulk_answer.status = "201"
    /\ bulk_answer.valid => bulk_answer.listed = EligibleN

\* C9: when the bulk create of migrate_all_groups succeeds for all N eligible
\* source groups, the summary has success_count = eligible_count = N,
\* failed_count = 0 and ok = True.
C9_AllGroupsSucceed ==
    (op = "migrate_all_groups" /\ pc = "done" /\ AllCreated) =>
        /\ group_result.success_count = EligibleN
        /\ group_result.eligible_count = EligibleN
        /\ group_result.failed_count = 0
        /\ group_result.ok

C9_Witness ==
    /\ op = "migrate_all_groups" /\ pc = "done" /\ AllCreated
    /\ bulk_answer.valid
    /\ Len(source_groups) = 2
    /\ group_result.success_count = 2

\* ------------------------------------------------------------------------
\* Properties of the script operations of Dashboard
\* ------------------------------------------------------------------------

\* C12: in add_dashboard_script and add_widget_script a None answer to any
\* request is checked before use: the operation returns an error string and
\* reads no attribute of the None response.
C12_NoneResponseChecked ==
    (op \in ScriptOps /\ last_response = "none") =>
        /\ outcome # "AttributeError"
        /\ (pc = "done") => (outcome = "returned" /\ script_result = "error")

\* C19: add_dashboard_script changes the owner only for the time of the
\* operation: when it is over, on whatever path, the dashboard has its
\* original owner and its original shares.
C19_OwnershipRestored ==
    (op = "add_dashboard_script" /\ pc = "done") =>
        /\ dash_owner = "original"
        /\ dash_shares = "original"

\* ------------------------------------------------------------------------
\* Properties of the requests of the share migration and of the export
\* ------------------------------------------------------------------------

\* C20: with change_ownership, migrate_dashboard_shares as called by
\* migrate_dashboards sends a change_owner request for every dashboard pair
\* whose source owner has a target id and does not own the target dashboard
\* (here: in a run in which no dashboard failed).
C20_OwnershipForEveryDueDashboard ==
    (/\ op = "migrate_dashboard_shares" /\ pc = "done" /\ outcome = "returned"
     /\ ~share_result.early /\ change_ownership
     /\ share_migration_summary.failed_dashboards = 0)
        => ownership_posts = owner_due

\* C16: no share list posted to the target holds an entry for the group
\* "Everyone".
C16_NoEveryoneShare == Everyone \notin last_posted

NoneFollowedKinds == {"export", "change_owner"}

C11_ValidCallReturns ==
    (op = "migrate_dashboards" /\ pc = "done" /\ ~ArgsInvalid(call))
        => outcome = "returned"

\* C17: in a run of migrate_all_dashboards with action "overwrite" or
\* "duplicate" migrate_dashboard_shares, which sends the lists of shares and
\* the change_owner requests, is never called, whatever migrate_share is and
\* whether or not a batch went through salvage.
C17_NoSharesOnOverwriteOrDuplicate ==
    (op = "migrate_all_dashboards" /\ action \in {"overwrite", "duplicate"})
        => share_calls = <<>>

C17_Witness ==
    /\ op = "migrate_all_dashboards" /\ pc = "done" /\ outcome = "returned"
    /\ action \in {"overwrite", "duplicate"}
    /\ migrate_share /\ change_ownership
    /\ result.succeeded_count >= 1
    /\ share_calls = <<>>

\* ------------------------------------------------------------------------
\* Properties of the planning of migrate_all_dashboards
\* ------------------------------------------------------------------------

\* C28: when migrate_all_dashboards returns ok=True with status "success",
\* every dashboard it discovered is accounted for as succeeded or skipped,
\* whatever integer was passed as batch_size.
C28_SuccessAccountsForAll ==
    (/\ op = "migrate_all_dashboards" /\ pc = "done" /\ outcome = "returned"
     /\ result.ok /\ result.status = "success")
        => result.succeeded_count + result.skipped_count = result.total_count

\* C26: in migrate_all_dashboards a failed request for the first listing
\* page ends the run with ok=False and raw_error set before any call of
\* migrate_dashboards; a failed request for a later page only ends the
\* pagination, and the run goes on to plan the batches over all the ids
\* retrieved so far.
C26_ListingFailure ==
    /\ [](op = "migrate_all_dashboards" /\ dashboard_response = "fail" /\ pages_fetched = 0
            => /\ pc = "done" /\ outcome = "returned"
               /\ ~result.ok /\ result.status = "failed" /\ result.raw_error
               /\ calls = <<>> /\ ~sent)
    /\ [](op = "migrate_all_dashboards" /\ dashboard_response = "fail" /\ pages_fetched > 0
            => pc = "mad_plan" /\ outcome = "running")
    /\ [][op = "migrate_all_dashboards" /\ pc = "mad_plan" /\ dashboard_response = "fail"
            => /\ total_count' = Cardinality(all_ids)
               /\ all_ids' = all_ids
               /\ all_ids # {} => pc' = "mad_batch"]_vars

C26_Witness ==
    /\ op = "migrate_all_dashboards" /\ pc = "mad_plan"
    /\ dashboard_response = "fail" /\ pages_fetched > 0 /\ all_ids # {}

\* ------------------------------------------------------------------------
\* Properties of the progress callback
\* ------------------------------------------------------------------------

C27_StartedFirstCompletedLast ==
    (emit # "none" /\ pc = "done") =>
        /\ events.first = "started"
        /\ events.completed = 1
        /\ events.closed

\* ------------------------------------------------------------------------
\* Properties of the posted share list
\* ------------------------------------------------------------------------

\* C25: the share list migrate_dashboard_shares posts for a target dashboard
\* holds every share the dashboard had, and adds only mapped source shares
\* whose user or group the dashboard is not shared with yet; a second run
\* over the same source would add nothing.
C25_PostedSharesKeepExisting ==
    (last_shares # NoShares) =>
        /\ last_shares.existing \subseteq last_posted
        /\ last_shares.added \subseteq {p \in Principals : user_mapping[p] # None}
        /\ last_shares.added \cap last_shares.existing = {}
        /\ FilteredNewShares(last_shares.added,
                             last_shares.existing \cup last_shares.added) = {}

\* ------------------------------------------------------------------------
\* Properties of the client's request methods
\* ------------------------------------------------------------------------

C23_UnresolvedSkipped ==
    (op \in CheckOps /\ pc = "done") =>
        /\ CheckArgument.kind # "none" => Len(answers) = Len(CheckRefs)
        /\ \A k \in 1..Len(answers) : answers[k].kind = "unresolved" => k \in warnings
        /\ \A j \in 1..Len(check_result) :
              /\ check_result[j].ref \in 1..Len(answers)
              /\ answers[check_result[j].ref].kind = "ok"
        /\ (CheckArgument.kind = "none" \/ \A k \in 1..Len(answers) : answers[k].kind # "ok")
              => check_result = <<>>

C23_Witness ==
    /\ op = "check_datamodel_rls_datatypes" /\ pc = "done"
    /\ Len(answers) = MaxRefs
    /\ answers[1].kind = "unresolved" /\ answers[MaxRefs].kind = "ok"
    /\ check_result = <<[ref |-> MaxRefs]>>
    /\ 1 \in warnings

====
